---- MODULE Spec2Model ----
(***************************************************************************)
(* Model of the authentication core of product-management:                 *)
(*   - pkg/jwt TokenManager (GenerateToken, ValidateToken, IsTokenExpired, *)
(*     GetTokenClaims), over github.com/golang-jwt/jwt/v5;                  *)
(*   - the gin authorization middleware chain (AuthMiddleware,             *)
(*     AdminMiddleware, and the router-local authMiddleware).              *)
(*                                                                         *)
(* Time is counted in ticks; TicksPerSecond ticks make one second, so that *)
(* the truncation of jwt.NumericDate to whole seconds is visible.  The MAC *)
(* is symbolic: a signature is the triple (method, key, signing input) and *)
(* verifies only against the same triple.                                  *)
(***************************************************************************)
EXTENDS Integers, Sequences, FiniteSets, TLC

\* ---------------------------------------------------------------- bounds
TicksPerSecond == 2
MaxTime == 4

\* ------------------------------------------------------------ value sets
Secrets == {"A", "B"}

\* time.Duration values handed to NewTokenManager: below, at and above 1s
Lifetimes == {1, TicksPerSecond, TicksPerSecond + 1}

\* TokenManager{secretKey, expiresIn}
TokenManagers == [secretKey : Secrets, expiresIn : Lifetimes]

\* Go strings are byte strings; BadName stands for one that is not valid
\* UTF-8, BadNameCoerced for the same with U+FFFD in place of the bad byte.
BadName == "al<FF>ce"
BadNameCoerced == "al<FFFD>ce"

\* service.Claims values
ClaimsSet ==
    { [UserID |-> 1, Username |-> "alice",   Email |-> "a@b.co", IsAdmin |-> FALSE],
      [UserID |-> 2, Username |-> "root",    Email |-> "r@b.co", IsAdmin |-> TRUE],
      [UserID |-> 1, Username |-> BadName,   Email |-> "a@b.co", IsAdmin |-> TRUE] }

NoClaims == [UserID |-> 0, Username |-> "", Email |-> "", IsAdmin |-> FALSE]
NoDate == -1

\* signing methods: the HMAC family, other registered methods, and a name
\* that jwt.GetSigningMethod does not know
HMACMethods == {"HS256", "HS384"}
RegisteredMethods == HMACMethods \cup {"none"}
Algs == RegisteredMethods \cup {"XX"}

\* -------------------------------------------------------------- the clock
\* NewNumericDate truncates to whole seconds; Unix() does the same
Unix(t) == t \div TicksPerSecond

\* the instant (in ticks) a NumericDate of s seconds denotes
DateTime(s) == s * TicksPerSecond

\* ------------------------------------------------------- JSON (un)marshal
\* encoding/json coerces strings to valid UTF-8 when marshalling
Utf8Coerce(s) == IF s = BadName THEN BadNameCoerced ELSE s

\* json.Marshal(CustomClaims{Claims, RegisteredClaims})
MarshalClaims(claims, exp, iat, nbf) ==
    [user_id  |-> claims.UserID,
     username |-> Utf8Coerce(claims.Username),
     email    |-> Utf8Coerce(claims.Email),
     is_admin |-> claims.IsAdmin,
     exp      |-> exp,
     iat      |-> iat,
     nbf      |-> nbf,
     sub      |-> Utf8Coerce(claims.Username)]

\* UnmarshalClaims with the is_admin field lost (a wrong json tag)
UnmarshalClaimsNoAdmin(payload) ==
    [UserID   |-> payload.user_id,
     Username |-> payload.username,
     Email    |-> payload.email,
     IsAdmin  |-> FALSE]

\* json.Unmarshal into CustomClaims, then &claims.Claims
UnmarshalClaims(payload) ==
    [UserID   |-> payload.user_id,
     Username |-> payload.username,
     Email    |-> payload.email,
     IsAdmin  |-> payload.is_admin]

\* ---------------------------------------------------------- symbolic MAC
SigningInput(alg, payload) == [alg |-> alg, payload |-> payload]

\* token.SignedString(key): method.Sign(header.payload, key)
Sign(method, key, input) == [method |-> method, key |-> key, input |-> input]

\* a signature segment that decodes but was produced by no Sign
GarbageSig == [method |-> "none", key |-> "", input |-> SigningInput("none", "")]

\* Verify that never looks at the key
VerifyAnyKey(method, input, sig, key) ==
    /\ method \in HMACMethods
    /\ sig.method = method
    /\ sig.input = input

\* token.Method.Verify(text, sig, key) with a []byte key: only the HMAC
\* methods accept it (none wants jwt.UnsafeAllowNoneSignatureType)
Verify(method, input, sig, key) ==
    /\ method \in HMACMethods
    /\ sig = Sign(method, key, input)

\* ------------------------------------------------------------------ tokens
\* form: "ok" = three segments that base64- and JSON-decode;
\*       "segments" = not three segments; "encoding" = undecodable segment
MalformedToken == [form |-> "encoding", alg |-> "XX",
                   payload |-> MarshalClaims(NoClaims, NoDate, NoDate, NoDate),
                   sig |-> GarbageSig]

NoSegmentsToken == [form |-> "segments", alg |-> "XX",
                    payload |-> MarshalClaims(NoClaims, NoDate, NoDate, NoDate),
                    sig |-> GarbageSig]

EmptyToken == NoSegmentsToken

\* GenerateToken that returns the expiry rounded up to the next second
GenerateTokenRoundedUp(tm, claims, t) ==
    LET expiresAt == t + tm.expiresIn
        payload == MarshalClaims(claims, Unix(expiresAt), Unix(t), Unix(t))
    IN [token |-> [form |-> "ok", alg |-> "HS256", payload |-> payload,
                   sig |-> Sign("HS256", tm.secretKey,
                                SigningInput("HS256", payload))],
        expiresAt |-> Unix(expiresAt + TicksPerSecond - 1)]

\* GenerateToken: the token string and the returned expiry (Unix seconds)
GenerateToken(tm, claims, t) ==
    LET expiresAt == t + tm.expiresIn
        payload == MarshalClaims(claims, Unix(expiresAt), Unix(t), Unix(t))
    IN [token |-> [form |-> "ok", alg |-> "HS256", payload |-> payload,
                   sig |-> Sign("HS256", tm.secretKey,
                                SigningInput("HS256", payload))],
        expiresAt |-> Unix(expiresAt)]

\* jwt.Parser.ParseUnverified: "" when it succeeds, else the error
ParseUnverified(tok) ==
    IF tok.form # "ok" THEN "ErrTokenMalformed"
    ELSE IF tok.alg \notin RegisteredMethods THEN "ErrTokenUnverifiable"
    ELSE ""

\* ValidateClaims that forgets exp
ValidateClaimsNoExp(payload, t) ==
    IF payload.nbf # NoDate /\ t < DateTime(payload.nbf)
        THEN {"ErrTokenNotValidYet"} ELSE {}

\* jwt.Validator.Validate on RegisteredClaims: exp and nbf against now
\* (iat is not verified by default); the set of failed checks
ValidateClaims(payload, t) ==
    (IF payload.exp # NoDate /\ ~(t < DateTime(payload.exp))
        THEN {"ErrTokenExpired"} ELSE {})
    \cup
    (IF payload.nbf # NoDate /\ t < DateTime(payload.nbf)
        THEN {"ErrTokenNotValidYet"} ELSE {})

\* jwt.ParseWithClaims with a keyfunc that insists on HMAC (checkMethod)
\* or hands out the key whatever the method; the set of errors the
\* returned error wraps, {} if none
ParseWithClaims(tok, key, checkMethod, t) ==
    IF ParseUnverified(tok) # "" THEN {ParseUnverified(tok)}
    ELSE IF checkMethod /\ tok.alg \notin HMACMethods
        THEN {"ErrTokenUnverifiable", "unexpected signing method"}
    ELSE IF ~Verify(tok.alg, SigningInput(tok.alg, tok.payload), tok.sig, key)
        THEN {"ErrTokenSignatureInvalid"}
    ELSE IF ValidateClaims(tok.payload, t) # {}
        THEN {"ErrTokenInvalidClaims"} \cup ValidateClaims(tok.payload, t)
    ELSE {}

\* ValidateToken whose keyfunc lets the none method through
ValidateTokenAllowNone(tm, tok, t) ==
    LET err == IF tok.form = "ok" /\ tok.alg = "none"
                  THEN ValidateClaims(tok.payload, t)
                  ELSE ParseWithClaims(tok, tm.secretKey, TRUE, t)
    IN IF err # {}
        THEN [ok |-> FALSE, claims |-> NoClaims, err |-> err]
        ELSE [ok |-> TRUE, claims |-> UnmarshalClaims(tok.payload), err |-> {}]

\* TokenManager.ValidateToken
ValidateToken(tm, tok, t) ==
    LET err == ParseWithClaims(tok, tm.secretKey, TRUE, t)
    IN IF err # {}
        THEN [ok |-> FALSE, claims |-> NoClaims, err |-> err]
        ELSE [ok |-> TRUE, claims |-> UnmarshalClaims(tok.payload), err |-> {}]

\* IsTokenExpired that parses without verifying and looks at exp alone
IsTokenExpiredUnverified(tm, tok, t) ==
    IF ParseUnverified(tok) # "" THEN "true"
    ELSE IF tok.payload.exp = NoDate THEN "panic"
    ELSE IF DateTime(tok.payload.exp) < t THEN "true" ELSE "false"

\* TokenManager.IsTokenExpired: "true", "false", or "panic" when the parsed
\* claims carry no exp (claims.ExpiresAt is a nil *NumericDate)
IsTokenExpired(tm, tok, t) ==
    IF ParseWithClaims(tok, tm.secretKey, FALSE, t) # {} THEN "true"
    ELSE IF tok.payload.exp = NoDate THEN "panic"
    ELSE IF DateTime(tok.payload.exp) < t THEN "true" ELSE "false"

\* GetTokenClaims that verifies like ValidateToken
GetTokenClaimsVerified(tm, tok) ==
    ValidateToken(tm, tok, 0)

\* TokenManager.GetTokenClaims
GetTokenClaims(tm, tok) ==
    IF ParseUnverified(tok) # ""
        THEN [ok |-> FALSE, claims |-> NoClaims, err |-> {ParseUnverified(tok)}]
        ELSE [ok |-> TRUE, claims |-> UnmarshalClaims(tok.payload), err |-> {}]

\* ================================================================ accounts
\* Strings the requests carry.  A Go string is a byte sequence; Chars gives
\* the bytes of each string that occurs, so that len() and the e-mail
\* pattern are computed on them.
LongName == "xxxxxxxxxxxxxxxxxxxxxxxxxxxxxxxxxxxxxxxxxxxxxxxxxxx"

\* a product name of 256 bytes
LongProductName ==
    "nnnnnnnnnnnnnnnnnnnnnnnnnnnnnnnnnnnnnnnnnnnnnnnnnnnnnnnnnnnnnnnnnnnnnnnnnnnnnnnnnnnnnnnnnnnnnnnnnnnnnnnnnnnnnnnnnnnnnnnnnnnnnnnnnnnnnnnnnnnnnnnnnnnnnnnnnnnnnnnnnnnnnnnnnnnnnnnnnnnnnnnnnnnnnnnnnnnnnnnnnnnnnnnnnnnnnnnnnnnnnnnnnnnnnnnnnnnnnnnnnnnnnnnnnnnnnnnn"

Chars(s) ==
    CASE s = ""          -> <<>>
      [] s = "a@b.co"    -> <<"a", "@", "b", ".", "c", "o">>
      [] s = "r@b.co"    -> <<"r", "@", "b", ".", "c", "o">>
      [] s = "A@b.co"    -> <<"A", "@", "b", ".", "c", "o">>
      [] s = "a@b.c"     -> <<"a", "@", "b", ".", "c">>
      [] s = "bad-email" -> <<"b", "a", "d", "-", "e", "m", "a", "i", "l">>
      [] s = "alice"     -> <<"a", "l", "i", "c", "e">>
      [] s = "root"      -> <<"r", "o", "o", "t">>
      [] s = "al"        -> <<"a", "l">>
      [] s = LongName    -> [i \in 1..51 |-> "x"]
      [] s = "password1" -> <<"p", "a", "s", "s", "w", "o", "r", "d", "1">>
      [] s = "password2" -> <<"p", "a", "s", "s", "w", "o", "r", "d", "2">>
      [] s = "1234567"   -> <<"1", "2", "3", "4", "5", "6", "7">>
      [] s = "admin"     -> <<"a", "d", "m", "i", "n">>
      [] s = "user"      -> <<"u", "s", "e", "r">>
      [] s = "ab"        -> <<"a", "b">>
      [] s = "widget"    -> <<"w", "i", "d", "g", "e", "t">>
      [] s = "gadget"    -> <<"g", "a", "d", "g", "e", "t">>
      [] s = LongProductName -> [i \in 1..256 |-> "n"]

\* len(s)
len(s) == Len(Chars(s))

LowerChars == {"a", "b", "c", "d", "e", "i", "l", "m", "o", "p", "r", "s",
               "t", "u", "w", "x"}
DigitChars == {"1", "2", "3", "4", "5", "6", "7"}
LocalChars == LowerChars \cup DigitChars \cup {".", "_", "%", "+", "-"}
DomainChars == LowerChars \cup DigitChars \cup {".", "-"}

\* authUseCase.isValidEmail: ^[a-z0-9._%+\-]+@[a-z0-9.\-]+\.[a-z]{2,}$
isValidEmail(email) ==
    LET s == Chars(email)
        n == Len(s)
    IN \E i \in 1..n, j \in 1..n :
          /\ i >= 2 /\ s[i] = "@"
          /\ j >= i + 2 /\ s[j] = "."
          /\ n - j >= 2
          /\ \A k \in 1..(i - 1) : s[k] \in LocalChars
          /\ \A k \in (i + 1)..(j - 1) : s[k] \in DomainChars
          /\ \A k \in (j + 1)..n : s[k] \in LowerChars

\* authUseCase.validatePassword: "" when the password passes
validatePassword(password) ==
    IF len(password) < 8 THEN "ErrInvalidInput" ELSE ""

\* validateRegisterRequest that forgets the password
validateRegisterRequestNoPassword(r) ==
    IF r.Email = "" THEN "ErrUserEmailRequired"
    ELSE IF ~isValidEmail(r.Email) THEN "ErrInvalidInput"
    ELSE IF r.Username = "" THEN "ErrUserUsernameRequired"
    ELSE IF len(r.Username) < 3 THEN "ErrUserUsernameTooShort"
    ELSE IF len(r.Username) > 50 THEN "ErrUserUsernameTooLong"
    ELSE ""

\* authUseCase.validateRegisterRequest: "" when the request passes
validateRegisterRequest(r) ==
    IF r.Email = "" THEN "ErrUserEmailRequired"
    ELSE IF ~isValidEmail(r.Email) THEN "ErrInvalidInput"
    ELSE IF r.Username = "" THEN "ErrUserUsernameRequired"
    ELSE IF len(r.Username) < 3 THEN "ErrUserUsernameTooShort"
    ELSE IF len(r.Username) > 50 THEN "ErrUserUsernameTooLong"
    ELSE validatePassword(r.Password)

\* User.Validate: "" when the entity passes
Validate(u) ==
    IF u.Email = "" THEN "ErrUserEmailRequired"
    ELSE IF u.Username = "" THEN "ErrUserUsernameRequired"
    ELSE IF len(u.Username) < 3 THEN "ErrUserUsernameTooShort"
    ELSE IF len(u.Username) > 50 THEN "ErrUserUsernameTooLong"
    ELSE ""

\* The password column holds a string; it is kept as its chunks.  A bcrypt
\* hash is prefix, salt and digest, the digest of p under a salt written p;
\* a plaintext p put in the column would be the one chunk p.
Salts == {"s1"}

PlainText(password) == <<password>>

\* User.HashPassword that stores what it was given
HashPasswordPlain(password, salt) == PlainText(password)

\* User.HashPassword: bcrypt.GenerateFromPassword with a fresh salt
HashPassword(password, salt) == <<"$2a$10$", salt, password>>

\* User.CheckPassword that compares the column with the plaintext
CheckPasswordExact(stored, password) == stored = PlainText(password)

\* User.CheckPassword: bcrypt.CompareHashAndPassword
CheckPassword(stored, password) ==
    /\ Len(stored) = 3
    /\ stored[1] = "$2a$10$"
    /\ stored[3] = password

\* a users table without unique indexes
UniqueViolationOff(table, row) == FALSE

\* users table: gorm's uniqueIndex on email and on username
UniqueViolation(table, row) ==
    \E i \in 1..Len(table) :
        /\ table[i].ID # row.ID
        /\ (table[i].Email = row.Email \/ table[i].Username = row.Username)

\* UserRepository.GetByEmail: the row's id, 0 for ErrUserNotFound
GetByEmail(table, email) ==
    IF \E i \in 1..Len(table) : table[i].Email = email
        THEN CHOOSE i \in 1..Len(table) : table[i].Email = email
        ELSE 0

\* UserRepository.ExistsByEmail
ExistsByEmail(table, email) ==
    \E i \in 1..Len(table) : table[i].Email = email

\* UserRepository.ExistsByUsername
ExistsByUsername(table, username) ==
    \E i \in 1..Len(table) : table[i].Username = username

\* authUseCase.GenerateToken: the claims taken from the user row
ClaimsOfUser(user) ==
    [UserID |-> user.ID, Username |-> user.Username,
     Email |-> user.Email, IsAdmin |-> user.IsAdmin]

\* =================================================================== state
VARIABLES
    now,      \* wall clock, in ticks
    tok,      \* the token string a client currently holds
    origin,   \* how tok came to be: its GenerateToken call, or forged
    res,      \* the last TokenManager call on tok at now, and what it returned
    req,      \* the HTTP request in flight through the gin handler chain
    users,    \* the users table, row i holding the user with ID i
    procs,    \* the AuthService calls in progress, one per goroutine
    products, \* the products table, row i holding the product with ID i
    pcall     \* the ProductService call being served, or the last one served

vars == <<now, tok, origin, res, req, users, procs, products, pcall>>

NoOrigin == [kind |-> "none", tm |-> [secretKey |-> "", expiresIn |-> 0],
             claims |-> NoClaims, at |-> 0, expiresAt |-> 0]

ForgedOrigin == [NoOrigin EXCEPT !.kind = "forged"]

NoRes == [op |-> "none", secretKey |-> "", ok |-> FALSE, claims |-> NoClaims,
          err |-> {}, expired |-> "", expiresAt |-> 0]

NoKeys == [present |-> FALSE, claims |-> NoClaims]

NoCall == [called |-> FALSE, ok |-> FALSE, claims |-> NoClaims, err |-> {}]

NoRoute == [name |-> "", chain |-> <<>>]

\* gin.Context of the request in flight; index is the position in the
\* route's handler chain (c.index), keys what c.Set stored
NoReq == [pc |-> "idle", route |-> NoRoute, header |-> <<>>, index |-> 0,
          keys |-> NoKeys, validate |-> NoCall, status |-> 0, message |-> "",
          aborted |-> FALSE, handlerRan |-> FALSE, identity |-> NoKeys]

\* goroutines serving AuthService calls
Procs == {"p1", "p2"}

NoUser == [ID |-> 0, Email |-> "", Username |-> "", Password |-> <<>>,
           FirstName |-> "", IsActive |-> FALSE, IsAdmin |-> FALSE,
           LastLoginAt |-> NoDate]

NoRequest == [Email |-> "", Username |-> "", Password |-> "", FirstName |-> "",
              NewPassword |-> "", UserID |-> 0, Role |-> ""]

\* a call: its request, the user it read or built, the UserRepository calls
\* it has made, and what it returned (err "" for nil, token for a
\* TokenResponse)
NoProc == [op |-> "", pc |-> "idle", req |-> NoRequest, user |-> NoUser,
           calls |-> <<>>, err |-> "", token |-> FALSE]

NoProduct == [ID |-> 0, Name |-> "", Price |-> 0, Stock |-> 0,
              IsActive |-> FALSE]

\* what GetProducts asked of the repository and what it answered
NoList == [offset |-> 0, limit |-> 0, Total |-> 0, Page |-> 0, PageSize |-> 0,
           TotalPages |-> 0]

\* a ProductService call: its request, the ProductRepository calls it has
\* made, and what it returned
NoProductCall == [op |-> "", pc |-> "idle", req |-> NoProduct, calls |-> <<>>,
                  err |-> "", product |-> NoProduct, list |-> NoList]

TokenInit ==
    /\ now = 0
    /\ tok = MalformedToken
    /\ origin = NoOrigin
    /\ res = NoRes

Init ==
    /\ TokenInit
    /\ req = NoReq
    /\ users = <<>>
    /\ procs = [p \in Procs |-> NoProc]
    /\ products = <<>>
    /\ pcall = NoProductCall

\* ------------------------------------------------------ TokenManager calls
\* time passes; the clock is monotonic
Tick ==
    /\ now < MaxTime
    /\ now' = now + 1
    /\ res' = NoRes
    /\ UNCHANGED <<tok, origin, req, users, procs, products, pcall>>

\* tm.GenerateToken(claims): the client now holds the returned token
CallGenerateToken ==
    \E tm \in TokenManagers, claims \in ClaimsSet :
        LET out == GenerateToken(tm, claims, now)
        IN /\ tok' = out.token
           /\ origin' = [kind |-> "issued", tm |-> tm, claims |-> claims,
                         at |-> now, expiresAt |-> out.expiresAt]
           /\ res' = [NoRes EXCEPT !.op = "GenerateToken",
                                   !.secretKey = tm.secretKey, !.ok = TRUE,
                                   !.expiresAt = out.expiresAt]
           /\ req.pc = "idle"
           /\ UNCHANGED <<now, req, users, procs, products, pcall>>

\* tm.ValidateToken(tok)
CallValidateToken ==
    \E tm \in TokenManagers :
        LET out == ValidateToken(tm, tok, now)
        IN /\ res' = [NoRes EXCEPT !.op = "ValidateToken",
                                   !.secretKey = tm.secretKey, !.ok = out.ok,
                                   !.claims = out.claims, !.err = out.err]
           /\ UNCHANGED <<now, tok, origin, req, users, procs, products, pcall>>

\* tm.IsTokenExpired(tok)
CallIsTokenExpired ==
    \E tm \in TokenManagers :
        /\ res' = [NoRes EXCEPT !.op = "IsTokenExpired",
                                !.secretKey = tm.secretKey, !.ok = TRUE,
                                !.expired = IsTokenExpired(tm, tok, now)]
        /\ UNCHANGED <<now, tok, origin, req, users, procs, products, pcall>>

\* tm.GetTokenClaims(tok)
CallGetTokenClaims ==
    \E tm \in TokenManagers :
        LET out == GetTokenClaims(tm, tok)
        IN /\ res' = [NoRes EXCEPT !.op = "GetTokenClaims",
                                   !.secretKey = tm.secretKey, !.ok = out.ok,
                                   !.claims = out.claims, !.err = out.err]
           /\ UNCHANGED <<now, tok, origin, req, users, procs, products, pcall>>

\* ---------------------------------------------------- the client's forgeries
\* what a client can do to an issued token before presenting it: rewrite
\* the header's alg, rewrite the payload, and keep the old signature, sign
\* anew with a key it holds, or put noise in the signature segment
PayloadEdits == {"keep", "admin", "noexp", "future"}
SigChoices == {"keep", "garbage"} \cup Secrets

EditPayload(payload, edit) ==
    CASE edit = "admin"  -> [payload EXCEPT !.is_admin = TRUE, !.user_id = 2]
      [] edit = "noexp"  -> [payload EXCEPT !.exp = NoDate]
      [] edit = "future" -> [payload EXCEPT !.nbf = Unix(MaxTime) + 1]
      [] OTHER           -> payload

ForgeSig(old, alg, payload, choice) ==
    CASE choice = "keep"    -> old
      [] choice = "garbage" -> GarbageSig
      [] OTHER              -> Sign(alg, choice, SigningInput(alg, payload))

Forge ==
    /\ req.pc = "idle"
    /\ origin.kind = "issued"
    /\ \E alg \in Algs, edit \in PayloadEdits, choice \in SigChoices :
          LET payload == EditPayload(tok.payload, edit)
          IN tok' = [form |-> "ok", alg |-> alg, payload |-> payload,
                     sig |-> ForgeSig(tok.sig, alg, payload, choice)]
    /\ tok' # tok
    /\ origin' = ForgedOrigin
    /\ res' = NoRes
    /\ UNCHANGED <<now, req, users, procs, products, pcall>>

\* the client types something that is no JWT at all
Garble ==
    /\ req.pc = "idle"
    /\ tok' \in {MalformedToken, NoSegmentsToken}
    /\ tok' # tok
    /\ origin' = ForgedOrigin
    /\ res' = NoRes
    /\ UNCHANGED <<now, req, users, procs, products, pcall>>

TokenNext ==
    \/ Tick
    \/ CallGenerateToken
    \/ CallValidateToken
    \/ CallIsTokenExpired
    \/ CallGetTokenClaims
    \/ Forge
    \/ Garble

\* the TokenManager on its own, with a client that may forge
Spec == Init /\ [][TokenNext]_vars

\* ================================================== the gin handler chain
\* An Authorization header value is a sequence of chunks: " " is one space,
\* "<token>" the token string the client holds (a JWT has no space in it),
\* any other chunk a run of non-space characters.
Headers ==
    { <<>>,
      <<"Bearer", " ", "<token>">>,
      <<"bearer", " ", "<token>">>,
      <<"Basic", " ", "<token>">>,
      <<"Bearer", " ", " ", "<token>">>,
      <<"Bearer", " ", "<token>", " ", "x">>,
      <<"Bearer", "<token>">>,
      <<"Bearer", " ">>,
      <<"<token>">> }

\* strings.Split(s, " "): the runs between the spaces, empty runs included
RECURSIVE Split(_)
Split(s) ==
    IF s = <<>> THEN << <<>> >>
    ELSE LET rest == Split(Tail(s))
         IN IF Head(s) = " "
               THEN << <<>> >> \o rest
               ELSE << <<Head(s)>> \o Head(rest) >> \o Tail(rest)

\* the token a string denotes: the held token, or text that is no JWT
\* (the empty string and dot-free text have no three segments)
TokenOfString(str, held) ==
    IF str = <<"<token>">> THEN held ELSE NoSegmentsToken

\* the TokenManager the server was built with (config JWT_SECRET,
\* JWT_EXPIRES_IN)
ServerTM == [secretKey |-> "A", expiresIn |-> TicksPerSecond + 1]

\* authUseCase.ValidateToken that also wants the account to be active
AuthServiceValidateTokenActiveOnly(token, t) ==
    LET out == ValidateToken(ServerTM, token, t)
    IN IF /\ out.ok
          /\ out.claims.UserID \in 1..Len(users)
          /\ ~users[out.claims.UserID].IsActive
          THEN [ok |-> FALSE, claims |-> NoClaims, err |-> {"ErrUserInactive"}]
          ELSE out

\* authUseCase.ValidateToken
AuthServiceValidateToken(token, t) == ValidateToken(ServerTM, token, t)

\* c.JSON(status, gin.H{"message": message}); c.Abort()
AbortWith(c, status, message) ==
    [c EXCEPT !.status = status, !.message = message, !.aborted = TRUE]

\* AuthMiddleware with the prefix test of router.authMiddleware in place of
\* the two-parts test
AuthMiddlewarePrefix(c, held, t) ==
    IF c.header = <<>>
        THEN AbortWith(c, 401, "Authorization header is required")
    ELSE IF Len(c.header) < 2 \/ c.header[1] # "Bearer" \/ c.header[2] # " "
        THEN AbortWith(c, 401, "Invalid authorization header format")
    ELSE LET out == AuthServiceValidateToken(
                        TokenOfString(SubSeq(c.header, 3, Len(c.header)), held), t)
             called == [called |-> TRUE, ok |-> out.ok,
                        claims |-> out.claims, err |-> out.err]
         IN IF ~out.ok
               THEN [AbortWith(c, 401, "Invalid or expired token")
                        EXCEPT !.validate = called]
               ELSE [c EXCEPT !.validate = called,
                              !.keys = [present |-> TRUE, claims |-> out.claims]]

\* middleware.AuthMiddleware
AuthMiddleware(c, held, t) ==
    IF c.header = <<>>
        THEN AbortWith(c, 401, "Authorization header is required")
    ELSE LET tokenParts == Split(c.header)
         IN IF Len(tokenParts) # 2 \/ tokenParts[1] # <<"Bearer">>
               THEN AbortWith(c, 401, "Invalid authorization header format")
            ELSE LET out == AuthServiceValidateToken(
                                TokenOfString(tokenParts[2], held), t)
                     called == [called |-> TRUE, ok |-> out.ok,
                                claims |-> out.claims, err |-> out.err]
                 IN IF ~out.ok
                       THEN [AbortWith(c, 401, "Invalid or expired token")
                                EXCEPT !.validate = called]
                       ELSE [c EXCEPT !.validate = called,
                                      !.keys = [present |-> TRUE,
                                                claims |-> out.claims]]

\* AdminMiddleware that only asks whether the flag was set
AdminMiddlewareExistsOnly(c) ==
    IF ~c.keys.present
        THEN AbortWith(c, 403, "Admin access required")
        ELSE c

\* middleware.AdminMiddleware
AdminMiddleware(c) ==
    IF ~c.keys.present \/ ~c.keys.claims.IsAdmin
        THEN AbortWith(c, 403, "Admin access required")
        ELSE c

\* router.authMiddleware (the router file's own middleware): authHeader[:7]
\* must be "Bearer " and authHeader[7:] non-empty; the token is not validated
authMiddleware(c) ==
    IF c.header = <<>>
        THEN AbortWith(c, 401, "Authorization header required")
    ELSE IF Len(c.header) < 2 \/ c.header[1] # "Bearer" \/ c.header[2] # " "
        THEN AbortWith(c, 401, "Invalid authorization header format")
    ELSE IF SubSeq(c.header, 3, Len(c.header)) = <<>>
        THEN AbortWith(c, 401, "Invalid token")
    ELSE c

\* SetupRouter: each route with the middleware in front of its handler
Routes ==
    { [name |-> "GET /api/v1/products", chain |-> <<>>],
      [name |-> "POST /api/v1/products", chain |-> <<"AuthMiddleware">>],
      [name |-> "GET /api/v1/auth/profile", chain |-> <<"AuthMiddleware">>],
      [name |-> "GET /api/v1/auth/users/:id",
       chain |-> <<"AuthMiddleware", "AdminMiddleware">>],
      [name |-> "GET /api/v1/users/profile", chain |-> <<"authMiddleware">>] }

\* a request arrives: gin builds the context and starts the chain
ReceiveRequest ==
    /\ req.pc = "idle"
    /\ \E route \in Routes, header \in Headers :
          req' = [NoReq EXCEPT !.pc = "chain", !.route = route,
                               !.header = header, !.index = 1]
    /\ UNCHANGED <<now, tok, origin, res, users, procs, products, pcall>>

\* after a middleware returns: aborted requests skip the rest of the chain
Advance(c) ==
    IF c.aborted THEN [c EXCEPT !.pc = "done"]
                 ELSE [c EXCEPT !.index = c.index + 1]

Current(name) ==
    /\ req.pc = "chain"
    /\ req.index <= Len(req.route.chain)
    /\ req.route.chain[req.index] = name

RunAuthMiddleware ==
    /\ Current("AuthMiddleware")
    /\ req' = Advance(AuthMiddleware(req, tok, now))
    /\ UNCHANGED <<now, tok, origin, res, users, procs, products, pcall>>

RunAdminMiddleware ==
    /\ Current("AdminMiddleware")
    /\ req' = Advance(AdminMiddleware(req))
    /\ UNCHANGED <<now, tok, origin, res, users, procs, products, pcall>>

RunRouterAuthMiddleware ==
    /\ Current("authMiddleware")
    /\ req' = Advance(authMiddleware(req))
    /\ UNCHANGED <<now, tok, origin, res, users, procs, products, pcall>>

\* the route's handler: it reads the identity from the context and answers
RunHandler ==
    /\ req.pc = "chain"
    /\ req.index > Len(req.route.chain)
    /\ req' = [req EXCEPT !.pc = "done", !.handlerRan = TRUE,
                          !.identity = req.keys, !.status = 200]
    /\ UNCHANGED <<now, tok, origin, res, users, procs, products, pcall>>

\* the response is written and the connection takes the next request
Respond ==
    /\ req.pc = "done"
    /\ req' = NoReq
    /\ UNCHANGED <<now, tok, origin, res, users, procs, products, pcall>>

HttpNext ==
    \/ Tick
    \/ CallGenerateToken
    \/ Garble
    \/ ReceiveRequest
    \/ RunAuthMiddleware
    \/ RunAdminMiddleware
    \/ RunRouterAuthMiddleware
    \/ RunHandler
    \/ Respond

\* the server's routes, with clients presenting issued or garbled tokens
SpecHttp == Init /\ [][HttpNext]_vars

\* ===================================================== the AuthService calls
\* Each call is a goroutine that serves it and ends; it takes one step per
\* UserRepository call, so that calls interleave at the database, and what
\* the code does between two repository calls belongs to the step of the
\* call that follows it.  tok is the token the client goes on presenting:
\* the one Register or Login last returned.
ValidEmails == {"a@b.co", "r@b.co"}
ValidNames == {"alice", "root"}

\* service.RegisterRequest values: well-formed ones, and one well-formed
\* request spoiled in one field or in two
RegisterRequests ==
    { [NoRequest EXCEPT !.Email = e, !.Username = u, !.Password = "password1"] :
          e \in ValidEmails, u \in ValidNames }
    \cup { [NoRequest EXCEPT !.Email = e, !.Username = "alice",
                             !.Password = "password1"] :
               e \in {"", "bad-email", "A@b.co", "a@b.c"} }
    \cup { [NoRequest EXCEPT !.Email = "a@b.co", !.Username = u,
                             !.Password = "password1"] :
               u \in {"", "al", LongName} }
    \cup { [NoRequest EXCEPT !.Email = "a@b.co", !.Username = "alice",
                             !.Password = w] : w \in {"", "1234567"} }
    \cup { [NoRequest EXCEPT !.Email = "bad-email", !.Username = "al",
                             !.Password = "1234567"] }

\* service.LoginRequest values
LoginRequests ==
    { [NoRequest EXCEPT !.Email = e, !.Password = w] :
          e \in ValidEmails \cup {""}, w \in {"password1", "password2", ""} }

\* user ids a caller may name: rows that can exist, and one that cannot
UserIDs == 1..(Cardinality(ValidEmails) + 1)

\* userID and service.PasswordChangeRequest values
PasswordChangeRequests ==
    { [NoRequest EXCEPT !.UserID = id, !.Password = cur, !.NewPassword = new] :
          id \in UserIDs, cur \in {"password1", "password2"},
          new \in {"password2", "1234567"} }

\* the updates map has no entry under the key
NoUpdate == "<absent>"

\* userID and the updates map: its "username" and "first_name" entries
\* ("last_name" is handled as "first_name" is)
ProfileUpdates ==
    { [NoRequest EXCEPT !.UserID = id, !.Username = u, !.FirstName = f] :
          id \in UserIDs, u \in ValidNames \cup {"al", "", NoUpdate},
          f \in {"Al", NoUpdate} }

\* the user UpdateProfile read, with the first name of the updates map
Named(user, r) ==
    [user EXCEPT !.FirstName = IF r.FirstName # NoUpdate THEN r.FirstName ELSE @]

\* the legacy usecase.RegisterRequest values (Name is kept in Username;
\* the binding asks only that it is not empty)
LegacyRegisterRequests ==
    { [NoRequest EXCEPT !.Email = e, !.Username = u, !.Password = "password1",
                        !.Role = r] :
          e \in ValidEmails, u \in ValidNames \cup {"al"},
          r \in {"user", "admin"} }

Begin(op, r, pc) == [NoProc EXCEPT !.op = op, !.req = r, !.pc = pc]

Range(seq) == {seq[i] : i \in 1..Len(seq)}

\* the call made one more UserRepository call
Called(pr, name) == [pr EXCEPT !.calls = Append(pr.calls, name)]

\* the call returns err
Return(pr, err) == [pr EXCEPT !.pc = "done", !.err = err]

At(p, op, pc) == procs[p].op = op /\ procs[p].pc = pc

\* gorm Create on the users table: the unique indexes, then the insert
\* with the next id
Create(table, user) ==
    IF UniqueViolation(table, user) THEN table ELSE Append(table, user)

\* Register: validateRegisterRequest, before any repository call
RegisterValidate ==
    \E p \in Procs, r \in RegisterRequests :
        /\ procs[p].pc = "idle"
        /\ LET err == validateRegisterRequest(r)
           IN procs' = [procs EXCEPT ![p] =
                 IF err # "" THEN Return(Begin("Register", r, "idle"), err)
                             ELSE Begin("Register", r, "ExistsByEmail")]
        /\ UNCHANGED <<now, tok, origin, res, req, users, products, pcall>>

\* Register that goes on to the username check whatever ExistsByEmail says
RegisterExistsByEmailIgnored ==
    \E p \in Procs :
        /\ At(p, "Register", "ExistsByEmail")
        /\ procs' = [procs EXCEPT ![p] =
              [Called(procs[p], "ExistsByEmail") EXCEPT !.pc = "ExistsByUsername"]]
        /\ UNCHANGED <<now, tok, origin, res, req, users, products, pcall>>

\* Register: userRepo.ExistsByEmail
RegisterExistsByEmail ==
    \E p \in Procs :
        /\ At(p, "Register", "ExistsByEmail")
        /\ LET pr == Called(procs[p], "ExistsByEmail")
           IN procs' = [procs EXCEPT ![p] =
                 IF ExistsByEmail(users, pr.req.Email)
                     THEN Return(pr, "ErrUserAlreadyExists")
                     ELSE [pr EXCEPT !.pc = "ExistsByUsername"]]
        /\ UNCHANGED <<now, tok, origin, res, req, users, products, pcall>>

\* Register: userRepo.ExistsByUsername
RegisterExistsByUsername ==
    \E p \in Procs :
        /\ At(p, "Register", "ExistsByUsername")
        /\ LET pr == Called(procs[p], "ExistsByUsername")
           IN procs' = [procs EXCEPT ![p] =
                 IF ExistsByUsername(users, pr.req.Username)
                     THEN Return(pr, "ErrUserAlreadyExists")
                     ELSE [pr EXCEPT !.pc = "Create"]]
        /\ UNCHANGED <<now, tok, origin, res, req, users, products, pcall>>

\* Register: the entity, user.HashPassword, userRepo.Create
RegisterCreate ==
    \E p \in Procs, salt \in Salts :
        /\ At(p, "Register", "Create")
        /\ LET pr == Called(procs[p], "Create")
               user == [ID |-> Len(users) + 1,
                        Email |-> pr.req.Email,
                        Username |-> pr.req.Username,
                        Password |-> HashPassword(pr.req.Password, salt),
                        FirstName |-> pr.req.FirstName,
                        IsActive |-> TRUE,
                        IsAdmin |-> FALSE,
                        LastLoginAt |-> NoDate]
           IN /\ users' = Create(users, user)
              /\ procs' = [procs EXCEPT ![p] =
                    IF UniqueViolation(users, user)
                        THEN Return(pr, "failed to create user")
                        ELSE [pr EXCEPT !.pc = "UpdateLastLogin",
                                        !.user = user]]
        /\ UNCHANGED <<now, tok, origin, res, req, products, pcall>>

\* uc.GenerateToken(user) and userRepo.UpdateLastLogin(user.ID), whose
\* error is dropped; the caller receives the user it held and the token
IssueAndStamp(p) ==
    LET pr == Called(procs[p], "UpdateLastLogin")
        out == GenerateToken(ServerTM, ClaimsOfUser(pr.user), now)
    IN /\ tok' = out.token
       /\ origin' = [kind |-> "issued", tm |-> ServerTM,
                     claims |-> ClaimsOfUser(pr.user), at |-> now,
                     expiresAt |-> out.expiresAt]
       /\ users' = [users EXCEPT ![pr.user.ID].LastLoginAt = now]
       /\ procs' = [procs EXCEPT ![p] = [Return(pr, "") EXCEPT !.token = TRUE]]
       /\ UNCHANGED <<now, res, req, products, pcall>>

\* Register: the token and the last-login update
RegisterIssue ==
    \E p \in Procs :
        /\ At(p, "Register", "UpdateLastLogin")
        /\ IssueAndStamp(p)

\* Login: the empty-field check, before any repository call
LoginCheckInput ==
    \E p \in Procs, r \in LoginRequests :
        /\ procs[p].pc = "idle"
        /\ procs' = [procs EXCEPT ![p] =
              IF r.Email = "" \/ r.Password = ""
                  THEN Return(Begin("Login", r, "idle"), "ErrInvalidCredentials")
                  ELSE Begin("Login", r, "GetByEmail")]
        /\ UNCHANGED <<now, tok, origin, res, req, users, products, pcall>>

\* Login that passes ErrUserNotFound on to its caller
LoginGetByEmailNotFound ==
    \E p \in Procs :
        /\ At(p, "Login", "GetByEmail")
        /\ LET pr == Called(procs[p], "GetByEmail")
               id == GetByEmail(users, pr.req.Email)
           IN procs' = [procs EXCEPT ![p] =
                 IF id = 0 THEN Return(pr, "ErrUserNotFound")
                 ELSE IF ~users[id].IsActive
                     THEN Return([pr EXCEPT !.user = users[id]], "ErrUserInactive")
                 ELSE IF ~CheckPassword(users[id].Password, pr.req.Password)
                     THEN Return([pr EXCEPT !.user = users[id]],
                                 "ErrInvalidCredentials")
                 ELSE [pr EXCEPT !.pc = "UpdateLastLogin", !.user = users[id]]]
        /\ UNCHANGED <<now, tok, origin, res, req, users, products, pcall>>

\* Login: userRepo.GetByEmail, then the active check and CheckPassword
LoginGetByEmail ==
    \E p \in Procs :
        /\ At(p, "Login", "GetByEmail")
        /\ LET pr == Called(procs[p], "GetByEmail")
               id == GetByEmail(users, pr.req.Email)
           IN procs' = [procs EXCEPT ![p] =
                 IF id = 0 THEN Return(pr, "ErrInvalidCredentials")
                 ELSE IF ~users[id].IsActive
                     THEN Return([pr EXCEPT !.user = users[id]], "ErrUserInactive")
                 ELSE IF ~CheckPassword(users[id].Password, pr.req.Password)
                     THEN Return([pr EXCEPT !.user = users[id]],
                                 "ErrInvalidCredentials")
                 ELSE [pr EXCEPT !.pc = "UpdateLastLogin", !.user = users[id]]]
        /\ UNCHANGED <<now, tok, origin, res, req, users, products, pcall>>

\* Login: the token and the last-login update
LoginIssue ==
    \E p \in Procs :
        /\ At(p, "Login", "UpdateLastLogin")
        /\ IssueAndStamp(p)

\* ChangePassword that validates the new password before it verifies the
\* current one
ChangePasswordValidateFirst ==
    \E p \in Procs, r \in PasswordChangeRequests, salt \in Salts :
        /\ procs[p].pc = "idle"
        /\ LET pr == Called(Begin("ChangePassword", r, "idle"), "GetByID")
           IN procs' = [procs EXCEPT ![p] =
                 IF r.UserID \notin 1..Len(users)
                     THEN Return(pr, "ErrUserNotFound")
                 ELSE IF validatePassword(r.NewPassword) # ""
                     THEN Return(pr, validatePassword(r.NewPassword))
                 ELSE IF ~CheckPassword(users[r.UserID].Password, r.Password)
                     THEN Return(pr, "ErrInvalidCredentials")
                 ELSE [pr EXCEPT !.pc = "UpdatePassword",
                          !.user = [users[r.UserID] EXCEPT
                               !.Password = HashPassword(r.NewPassword, salt)]]]
        /\ UNCHANGED <<now, tok, origin, res, req, users, products, pcall>>

\* ChangePassword: userRepo.GetByID, CheckPassword on the current
\* password, validatePassword and HashPassword on the new one
ChangePasswordGetByID ==
    \E p \in Procs, r \in PasswordChangeRequests, salt \in Salts :
        /\ procs[p].pc = "idle"
        /\ LET pr == Called(Begin("ChangePassword", r, "idle"), "GetByID")
           IN procs' = [procs EXCEPT ![p] =
                 IF r.UserID \notin 1..Len(users)
                     THEN Return(pr, "ErrUserNotFound")
                 ELSE IF ~CheckPassword(users[r.UserID].Password, r.Password)
                     THEN Return(pr, "ErrInvalidCredentials")
                 ELSE IF validatePassword(r.NewPassword) # ""
                     THEN Return(pr, validatePassword(r.NewPassword))
                 ELSE [pr EXCEPT !.pc = "UpdatePassword",
                          !.user = [users[r.UserID] EXCEPT
                               !.Password = HashPassword(r.NewPassword, salt)]]]
        /\ UNCHANGED <<now, tok, origin, res, req, users, products, pcall>>

\* ChangePassword that returns without writing the new hash
ChangePasswordUpdateDropped ==
    \E p \in Procs :
        /\ At(p, "ChangePassword", "UpdatePassword")
        /\ procs' = [procs EXCEPT ![p] =
                         Return(Called(procs[p], "UpdatePassword"), "")]
        /\ UNCHANGED <<now, tok, origin, res, req, users, products, pcall>>

\* ChangePassword: userRepo.UpdatePassword(userID, user.Password)
ChangePasswordUpdate ==
    \E p \in Procs :
        /\ At(p, "ChangePassword", "UpdatePassword")
        /\ LET pr == Called(procs[p], "UpdatePassword")
           IN /\ users' = [users EXCEPT ![pr.req.UserID].Password = pr.user.Password]
              /\ procs' = [procs EXCEPT ![p] = Return(pr, "")]
        /\ UNCHANGED <<now, tok, origin, res, req, products, pcall>>

\* UpdateProfile: userRepo.GetByID, the first name, and user.Validate when
\* the username stays as it is
UpdateProfileGetByID ==
    \E p \in Procs, r \in ProfileUpdates :
        /\ procs[p].pc = "idle"
        /\ LET pr == Called(Begin("UpdateProfile", r, "idle"), "GetByID")
           IN procs' = [procs EXCEPT ![p] =
                 IF r.UserID \notin 1..Len(users)
                     THEN Return(pr, "ErrUserNotFound")
                 ELSE IF r.Username # NoUpdate
                         /\ r.Username # users[r.UserID].Username
                     THEN [pr EXCEPT !.pc = "ExistsByUsername",
                                     !.user = Named(users[r.UserID], r)]
                 ELSE IF Validate(users[r.UserID]) # ""
                     THEN Return([pr EXCEPT !.user = Named(users[r.UserID], r)],
                                 Validate(users[r.UserID]))
                 ELSE [pr EXCEPT !.pc = "Update",
                                 !.user = Named(users[r.UserID], r)]]
        /\ UNCHANGED <<now, tok, origin, res, req, users, products, pcall>>

\* UpdateProfile: userRepo.ExistsByUsername, then user.Validate
UpdateProfileExistsByUsername ==
    \E p \in Procs :
        /\ At(p, "UpdateProfile", "ExistsByUsername")
        /\ LET pr == Called(procs[p], "ExistsByUsername")
               user == [pr.user EXCEPT !.Username = pr.req.Username]
           IN procs' = [procs EXCEPT ![p] =
                 IF ExistsByUsername(users, pr.req.Username)
                     THEN Return(pr, "ErrUserAlreadyExists")
                 ELSE IF Validate(user) # ""
                     THEN Return([pr EXCEPT !.user = user], Validate(user))
                 ELSE [pr EXCEPT !.pc = "Update", !.user = user]]
        /\ UNCHANGED <<now, tok, origin, res, req, users, products, pcall>>

\* UpdateProfile: userRepo.Update, gorm Save writing every column of the
\* user the call holds
UpdateProfileUpdate ==
    \E p \in Procs :
        /\ At(p, "UpdateProfile", "Update")
        /\ LET pr == Called(procs[p], "Update")
           IN IF UniqueViolation(users, pr.user)
                 THEN /\ procs' = [procs EXCEPT ![p] =
                                      Return(pr, "failed to update user")]
                      /\ UNCHANGED users
                 ELSE /\ procs' = [procs EXCEPT ![p] = Return(pr, "")]
                      /\ users' = [users EXCEPT ![pr.user.ID] = pr.user]
        /\ UNCHANGED <<now, tok, origin, res, req, products, pcall>>

\* RefreshToken that copies the claims of the token it was given
RefreshTokenCarriedClaims ==
    \E p \in Procs, switch \in BOOLEAN :
        /\ procs[p].pc = "idle"
        /\ LET valid == ValidateToken(ServerTM, tok, now)
               pr == Begin("RefreshToken", NoRequest, "idle")
               id == valid.claims.UserID
           IN IF ~valid.ok
                 THEN /\ procs' = [procs EXCEPT ![p] = Return(pr, "ErrInvalidToken")]
                      /\ UNCHANGED <<tok, origin>>
              ELSE IF id \notin 1..Len(users)
                 THEN /\ procs' = [procs EXCEPT ![p] =
                            Return(Called(pr, "GetByID"), "ErrUserNotFound")]
                      /\ UNCHANGED <<tok, origin>>
              ELSE IF ~users[id].IsActive
                 THEN /\ procs' = [procs EXCEPT ![p] =
                            Return(Called(pr, "GetByID"), "ErrUserInactive")]
                      /\ UNCHANGED <<tok, origin>>
              ELSE LET out == GenerateToken(ServerTM, valid.claims, now)
                   IN /\ procs' = [procs EXCEPT ![p] =
                            [Return(Called(pr, "GetByID"), "") EXCEPT
                                !.token = TRUE, !.user = users[id]]]
                      /\ IF switch
                            THEN /\ tok' = out.token
                                 /\ origin' = [kind |-> "issued", tm |-> ServerTM,
                                               claims |-> valid.claims,
                                               at |-> now,
                                               expiresAt |-> out.expiresAt]
                            ELSE UNCHANGED <<tok, origin>>
        /\ UNCHANGED <<now, res, req, users, products, pcall>>

\* RefreshToken on the token the client holds: ValidateToken,
\* userRepo.GetByID, the active check, and a successor token, which the
\* client may present from now on in place of the old one
RefreshToken ==
    \E p \in Procs, switch \in BOOLEAN :
        /\ procs[p].pc = "idle"
        /\ LET valid == ValidateToken(ServerTM, tok, now)
               pr == Begin("RefreshToken", NoRequest, "idle")
               id == valid.claims.UserID
           IN IF ~valid.ok
                 THEN /\ procs' = [procs EXCEPT ![p] = Return(pr, "ErrInvalidToken")]
                      /\ UNCHANGED <<tok, origin>>
              ELSE IF id \notin 1..Len(users)
                 THEN /\ procs' = [procs EXCEPT ![p] =
                            Return(Called(pr, "GetByID"), "ErrUserNotFound")]
                      /\ UNCHANGED <<tok, origin>>
              ELSE IF ~users[id].IsActive
                 THEN /\ procs' = [procs EXCEPT ![p] =
                            Return(Called(pr, "GetByID"), "ErrUserInactive")]
                      /\ UNCHANGED <<tok, origin>>
              ELSE LET out == GenerateToken(ServerTM, ClaimsOfUser(users[id]), now)
                   IN /\ procs' = [procs EXCEPT ![p] =
                            [Return(Called(pr, "GetByID"), "") EXCEPT
                                !.token = TRUE, !.user = users[id]]]
                      /\ IF switch
                            THEN /\ tok' = out.token
                                 /\ origin' = [kind |-> "issued", tm |-> ServerTM,
                                               claims |-> ClaimsOfUser(users[id]),
                                               at |-> now,
                                               expiresAt |-> out.expiresAt]
                            ELSE UNCHANGED <<tok, origin>>
        /\ UNCHANGED <<now, res, req, users, products, pcall>>

\* RevokeToken on the token the client holds: ValidateToken and nothing
\* else; the jwt error is returned as it is
RevokeToken ==
    \E p \in Procs :
        /\ procs[p].pc = "idle"
        /\ origin.kind = "issued"
        /\ procs' = [procs EXCEPT ![p] =
              Return(Begin("RevokeToken", NoRequest, "idle"),
                     IF ValidateToken(ServerTM, tok, now).ok THEN "" ELSE "jwt")]
        /\ UNCHANGED <<now, tok, origin, res, req, users, products, pcall>>

\* the other AuthUseCase.Register: GetByEmail, the entity with IsAdmin
\* taken from the request's role, HashPassword, userRepo.Create
LegacyRegister ==
    \E p \in Procs, r \in LegacyRegisterRequests, salt \in Salts :
        /\ procs[p].pc = "idle"
        /\ LET pr == Called(Begin("LegacyRegister", r, "idle"), "GetByEmail")
               user == [ID |-> Len(users) + 1,
                        Email |-> r.Email,
                        Username |-> r.Username,
                        Password |-> HashPassword(r.Password, salt),
                        FirstName |-> r.Username,
                        IsActive |-> TRUE,
                        IsAdmin |-> (r.Role = "admin"),
                        LastLoginAt |-> NoDate]
           IN IF GetByEmail(users, r.Email) # 0
                 THEN /\ procs' = [procs EXCEPT ![p] =
                                      Return(pr, "user already exists")]
                      /\ UNCHANGED users
                 ELSE /\ users' = Create(users, user)
                      /\ procs' = [procs EXCEPT ![p] =
                            IF UniqueViolation(users, user)
                                THEN Return(Called(pr, "Create"),
                                            "failed to create user")
                                ELSE [Return(Called(pr, "Create"), "")
                                         EXCEPT !.user = user]]
        /\ UNCHANGED <<now, tok, origin, res, req, products, pcall>>

\* the other AuthUseCase.Login: GetByEmail, CheckPassword, a token
LegacyLogin ==
    \E p \in Procs, r \in LoginRequests :
        /\ procs[p].pc = "idle"
        /\ LET pr == Called(Begin("LegacyLogin", r, "idle"), "GetByEmail")
               id == GetByEmail(users, r.Email)
           IN procs' = [procs EXCEPT ![p] =
                 IF id = 0 THEN Return(pr, "invalid credentials")
                 ELSE IF ~CheckPassword(users[id].Password, r.Password)
                     THEN Return([pr EXCEPT !.user = users[id]],
                                 "invalid credentials")
                 ELSE [Return(pr, "") EXCEPT !.token = TRUE, !.user = users[id]]]
        /\ UNCHANGED <<now, tok, origin, res, req, users, products, pcall>>

\* an operator switches an account off: userRepo.Update with IsActive false
Deactivate ==
    \E id \in 1..Len(users) :
        /\ users[id].IsActive
        /\ users' = [users EXCEPT ![id].IsActive = FALSE]
        /\ UNCHANGED <<now, tok, origin, res, req, procs, products, pcall>>

\* an operator makes an account an administrator: userRepo.Update
Promote ==
    \E id \in 1..Len(users) :
        /\ ~users[id].IsAdmin
        /\ users' = [users EXCEPT ![id].IsAdmin = TRUE]
        /\ UNCHANGED <<now, tok, origin, res, req, procs, products, pcall>>

\* ================================================================ claims
ValidUtf8(claims) ==
    /\ Utf8Coerce(claims.Username) = claims.Username
    /\ Utf8Coerce(claims.Email) = claims.Email

\* a ValidateToken call on a freshly issued token, by a manager with the
\* issuing manager's secret, before the clock has moved
RoundTripCall ==
    /\ res.op = "ValidateToken"
    /\ origin.kind = "issued"
    /\ origin.at = now
    /\ res.secretKey = origin.tm.secretKey

\* C1 (as claimed): for every claims value and every TokenManager,
\* ValidateToken on the token GenerateToken just returned succeeds and
\* returns the original claims field by field.
C1_RoundTripEveryManager ==
    RoundTripCall =>
        /\ res.ok
        /\ res.claims.UserID = origin.claims.UserID
        /\ res.claims.Username = origin.claims.Username
        /\ res.claims.Email = origin.claims.Email
        /\ res.claims.IsAdmin = origin.claims.IsAdmin

\* C1 (amended): the round trip holds for every TokenManager whose lifetime
\* is at least one second and every claims value whose strings are valid
\* UTF-8: exp is truncated to whole seconds, so a shorter lifetime can
\* expire at issuance, and the JSON encoding rewrites invalid bytes.
C1_RoundTrip ==
    (RoundTripCall /\ origin.tm.expiresIn >= TicksPerSecond
                   /\ ValidUtf8(origin.claims)) =>
        /\ res.ok
        /\ res.claims.UserID = origin.claims.UserID
        /\ res.claims.Username = origin.claims.Username
        /\ res.claims.Email = origin.claims.Email
        /\ res.claims.IsAdmin = origin.claims.IsAdmin

\* a round trip of admin claims, issued off the second boundary
C1_Witness ==
    /\ RoundTripCall
    /\ origin.tm.expiresIn >= TicksPerSecond
    /\ origin.at % TicksPerSecond # 0
    /\ res.ok
    /\ res.claims = origin.claims
    /\ origin.claims.IsAdmin

\* C2: a token issued under secret A never validates under a manager with
\* another secret B, whatever the claims and whenever it is presented:
\* ValidateToken returns an error and no claims.
C2_WrongSecretRejected ==
    (/\ res.op = "ValidateToken"
     /\ origin.kind = "issued"
     /\ res.secretKey # origin.tm.secretKey) =>
        /\ ~res.ok
        /\ res.err # {}
        /\ res.claims = NoClaims

\* an unexpired issued token refused by the other secret's manager
C2_Witness ==
    /\ res.op = "ValidateToken"
    /\ origin.kind = "issued"
    /\ res.secretKey # origin.tm.secretKey
    /\ now < DateTime(origin.expiresAt)
    /\ res.err = {"ErrTokenSignatureInvalid"}

\* the issued token the client holds has reached its expiry
Expired ==
    /\ origin.kind = "issued"
    /\ now >= DateTime(origin.expiresAt)

C3_State ==
    /\ (res.op = "ValidateToken" /\ origin.kind = "issued" /\ res.ok) =>
            /\ now < DateTime(origin.expiresAt)
            /\ now < origin.at + origin.tm.expiresIn
    /\ (Expired /\ res.op = "ValidateToken") => ~res.ok
    /\ (Expired /\ res.op = "IsTokenExpired") => res.expired = "true"

C3_Step ==
    (Expired /\ tok' = tok /\ origin' = origin) =>
        /\ Expired'
        /\ \A tm \in TokenManagers : ~ValidateToken(tm, tok', now').ok

\* C3: an issued token validates only while now < expiresAt; from
\* now >= expiresAt on ValidateToken fails and IsTokenExpired reports true,
\* and with the monotonic clock the token never validates again.
C3_Lifecycle == [](C3_State) /\ [][C3_Step]_vars

\* an issued token, past its expiry, reported expired
C3_Witness ==
    /\ Expired
    /\ origin.at < now
    /\ origin.tm.expiresIn >= TicksPerSecond
    /\ res.op = "IsTokenExpired"
    /\ res.secretKey = origin.tm.secretKey
    /\ res.expired = "true"

\* C4: ValidateToken rejects every token whose header names a signing
\* method outside the HMAC family, whatever its payload and signature:
\* it yields an error and no claims.
C4_NonHmacRejected ==
    (res.op = "ValidateToken" /\ tok.form = "ok" /\ tok.alg \notin HMACMethods) =>
        /\ ~res.ok
        /\ res.err # {}
        /\ res.claims = NoClaims

\* an unexpired alg=none token claiming admin, refused for its method
C4_Witness ==
    /\ res.op = "ValidateToken"
    /\ tok.form = "ok"
    /\ tok.alg = "none"
    /\ tok.payload.is_admin
    /\ ValidateClaims(tok.payload, now) = {}
    /\ "unexpected signing method" \in res.err

\* C5 (as claimed): ValidateToken fails with the one invalid-token error
\* (entity.ErrInvalidToken) whatever the cause, so an expired token and a
\* malformed or wrongly signed one give its caller the same error.
C5_SingleErrorClass ==
    (res.op = "ValidateToken" /\ ~res.ok) => res.err = {"ErrInvalidToken"}

\* the claims a token's payload segment carries
Embedded(token) ==
    [UserID   |-> token.payload.user_id,
     Username |-> token.payload.username,
     Email    |-> token.payload.email,
     IsAdmin  |-> token.payload.is_admin]

\* ValidateToken would refuse token now, under the manager of the last call
Refused(token) ==
    ~ValidateToken([secretKey |-> res.secretKey, expiresIn |-> TicksPerSecond],
                   token, now).ok

\* C6 (as claimed): GetTokenClaims returns the embedded claims of every
\* structurally well-formed token and fails only on structurally
\* malformed input.
C6_FailsOnlyOnMalformed ==
    res.op = "GetTokenClaims" =>
        /\ tok.form = "ok" => (res.ok /\ res.claims = Embedded(tok))
        /\ ~res.ok => tok.form # "ok"

\* C6 (amended): GetTokenClaims verifies neither signature nor expiry: on
\* a well-formed token whose header names a registered signing method it
\* returns the embedded claims, also when ValidateToken refuses the token;
\* it fails only on malformed input or an unregistered signing method.
C6_ExtractUnverified ==
    res.op = "GetTokenClaims" =>
        /\ (tok.form = "ok" /\ tok.alg \in RegisteredMethods) =>
                (res.ok /\ res.claims = Embedded(tok))
        /\ ~res.ok => (tok.form # "ok" \/ tok.alg \notin RegisteredMethods)
        /\ ~res.ok => res.claims = NoClaims

\* claims read out of an unexpired token with a bad signature, which
\* ValidateToken refuses
C6_Witness ==
    /\ res.op = "GetTokenClaims"
    /\ res.ok
    /\ tok.sig = GarbageSig
    /\ tok.alg = "HS256"
    /\ ValidateClaims(tok.payload, now) = {}
    /\ res.claims.IsAdmin
    /\ Refused(tok)

\* C7: IsTokenExpired reports true for every token that does not parse,
\* is wrongly signed or is past its expiry, hence for every token
\* ValidateToken would refuse, and false for a token the same manager
\* issued whose expiry is still ahead.
C7_IsExpiredConservative ==
    res.op = "IsTokenExpired" =>
        /\ tok.form # "ok" => res.expired = "true"
        /\ (tok.form = "ok" /\ tok.sig # Sign(tok.alg, res.secretKey,
                                   SigningInput(tok.alg, tok.payload))) =>
                res.expired = "true"
        /\ (tok.payload.exp # NoDate /\ now >= DateTime(tok.payload.exp)) =>
                res.expired = "true"
        /\ Refused(tok) => res.expired = "true"
        /\ (/\ origin.kind = "issued"
            /\ origin.tm.secretKey = res.secretKey
            /\ now < DateTime(origin.expiresAt)) => res.expired = "false"

\* an unexpired token of the issuing secret's payload, re-signed with
\* another key, reported expired
C7_Witness ==
    /\ res.op = "IsTokenExpired"
    /\ tok.form = "ok"
    /\ tok.alg = "HS256"
    /\ tok.sig.key \in Secrets
    /\ tok.sig.key # res.secretKey
    /\ tok.payload.exp # NoDate
    /\ ValidateClaims(tok.payload, now) = {}
    /\ res.expired = "true"

\* the request went through a route guarded by some authentication middleware
Protected == req.pc # "idle" /\ req.route.chain # <<>>

\* the request went through a route guarded by middleware.AuthMiddleware
AuthRoute == Protected /\ req.route.chain[1] = "AuthMiddleware"

\* C8 (as claimed): on every protected route the outcome depends on
\* ValidateToken alone: the handler runs only after ValidateToken accepted
\* the presented token, with exactly the validated claims attached as the
\* identity, and a token ValidateToken refuses gets 401 with no identity.
C8_OutcomeFromValidateOnly ==
    (Protected /\ req.pc = "done") =>
        /\ req.handlerRan =>
              /\ req.validate.called
              /\ req.validate.ok
              /\ req.identity = [present |-> TRUE, claims |-> req.validate.claims]
        /\ (req.validate.called /\ ~req.validate.ok) =>
              /\ req.status = 401
              /\ ~req.handlerRan
              /\ ~req.keys.present

\* the header is one scheme and one token with a single space between
\* them, and the scheme is exactly Bearer
ProperHeader(h) ==
    \E i \in 1..Len(h) :
        /\ h[i] = " "
        /\ \A j \in 1..Len(h) : h[j] = " " => j = i
        /\ SubSeq(h, 1, i - 1) = <<"Bearer">>

AdminRoute == AuthRoute /\ req.route.name = "GET /api/v1/auth/users/:id"

\* C10: AdminMiddleware answers 403 when the admin flag is absent from the
\* context or false; on the admin route a missing or refused token gets
\* 401, an accepted token of a non-admin gets 403, and the handler runs
\* only for an accepted token of an admin.
C10_AdminGate ==
    /\ AdminMiddleware([NoReq EXCEPT !.pc = "chain"]).status = 403
    /\ AdminMiddleware([NoReq EXCEPT !.pc = "chain"]).aborted
    /\ (AdminRoute /\ req.pc = "done") =>
          /\ (~req.validate.called \/ ~req.validate.ok) =>
                (req.status = 401 /\ ~req.handlerRan)
          /\ req.validate.ok =>
                (origin.kind = "issued" /\ origin.tm.secretKey = ServerTM.secretKey)
          /\ (req.validate.ok /\ ~origin.claims.IsAdmin) =>
                /\ req.status = 403
                /\ req.message = "Admin access required"
                /\ ~req.handlerRan
          /\ req.handlerRan =>
                (req.validate.ok /\ origin.claims.IsAdmin)

\* an accepted token of a non-admin turned away from the admin route
C10_Witness ==
    /\ AdminRoute
    /\ req.pc = "done"
    /\ req.validate.ok
    /\ ~origin.claims.IsAdmin
    /\ req.status = 403
    /\ ~req.handlerRan

AuthNext ==
    \/ Tick
    \/ RegisterValidate
    \/ RegisterExistsByEmail
    \/ RegisterExistsByUsername
    \/ RegisterCreate
    \/ RegisterIssue
    \/ LoginCheckInput
    \/ LoginGetByEmail
    \/ LoginIssue
    \/ ChangePasswordGetByID
    \/ ChangePasswordUpdate
    \/ UpdateProfileGetByID
    \/ UpdateProfileExistsByUsername
    \/ UpdateProfileUpdate
    \/ RefreshToken
    \/ RevokeToken
    \/ LegacyRegister
    \/ LegacyLogin
    \/ Deactivate
    \/ Promote

\* an account that was registered before the server started
SeedUser == [ID |-> 1, Email |-> "a@b.co", Username |-> "alice",
             Password |-> HashPassword("password1", "s1"), FirstName |-> "",
             IsActive |-> TRUE, IsAdmin |-> FALSE, LastLoginAt |-> NoDate]

\* the server starts on an empty users table or on one with an account
InitAuth ==
    /\ TokenInit
    /\ req = NoReq
    /\ users \in {<<>>, <<SeedUser>>}
    /\ procs = [p \in Procs |-> NoProc]
    /\ products = <<>>
    /\ pcall = NoProductCall

\* the AuthService calls, two of them at a time
SpecAuth == InitAuth /\ [][AuthNext]_vars

ValidationErrors ==
    {"ErrUserEmailRequired", "ErrUserUsernameRequired", "ErrUserUsernameTooShort",
     "ErrUserUsernameTooLong", "ErrInvalidInput", "ErrValidationFailed"}

\* the request breaks one of the rules Register validates
BadRegisterInput(r) ==
    \/ r.Email \in {"", "bad-email", "A@b.co"}
    \/ r.Username = ""
    \/ len(r.Username) < 3
    \/ len(r.Username) > 50
    \/ len(r.Password) < 8

C12_State ==
    \A p \in Procs :
        (procs[p].op = "Register" /\ BadRegisterInput(procs[p].req)) =>
            /\ procs[p].pc = "done"
            /\ procs[p].err \in ValidationErrors
            /\ procs[p].calls = <<>>
            /\ ~procs[p].token

C12_Step ==
    \A p \in Procs :
        (/\ procs[p].pc = "idle"
         /\ procs'[p].op = "Register"
         /\ BadRegisterInput(procs'[p].req)) =>
            UNCHANGED <<users, tok, origin>>

\* C12: Register validates before touching storage: with an empty or
\* malformed email, an empty, too short or too long username, or a password
\* under 8 bytes it returns a validation error having made no repository
\* call, and the users table is as it was.
C12_ValidatesFirst == [](C12_State) /\ [][C12_Step]_vars

\* a request with a bad email and a weak password, refused while the table
\* holds an account
C12_Witness ==
    /\ Len(users) > 0
    /\ \E p \in Procs :
          /\ procs[p].op = "Register"
          /\ procs[p].pc = "done"
          /\ procs[p].req.Email = "bad-email"
          /\ procs[p].req.Password = "1234567"
          /\ procs[p].err = "ErrInvalidInput"
          /\ procs[p].calls = <<>>

C13_State ==
    \A p \in Procs :
        (procs[p].op = "Register" /\ procs[p].pc = "done") =>
            /\ procs[p].err = "ErrUserAlreadyExists" =>
                  /\ procs[p].calls \in {<<"ExistsByEmail">>,
                                         <<"ExistsByEmail", "ExistsByUsername">>}
                  /\ procs[p].user = NoUser
                  /\ ~procs[p].token
            /\ procs[p].err = "" =>
                  procs[p].calls = <<"ExistsByEmail", "ExistsByUsername",
                                     "Create", "UpdateLastLogin">>

C13_Step ==
    \A p \in Procs :
        /\ (/\ At(p, "Register", "ExistsByEmail")
            /\ procs'[p] # procs[p]
            /\ ExistsByEmail(users, procs[p].req.Email)) =>
               /\ procs'[p].pc = "done"
               /\ procs'[p].err = "ErrUserAlreadyExists"
               /\ procs'[p].calls = <<"ExistsByEmail">>
               /\ UNCHANGED <<users, tok, origin>>
        /\ (/\ At(p, "Register", "ExistsByUsername")
            /\ procs'[p] # procs[p]
            /\ ExistsByUsername(users, procs[p].req.Username)) =>
               /\ procs'[p].pc = "done"
               /\ procs'[p].err = "ErrUserAlreadyExists"
               /\ procs'[p].calls = <<"ExistsByEmail", "ExistsByUsername">>
               /\ UNCHANGED <<users, tok, origin>>

\* C13: Register checks the email first and the username second: when the
\* email exists it returns AlreadyExistsError after ExistsByEmail alone,
\* when only the username exists it returns AlreadyExistsError after both
\* checks, and in both cases it creates no user and issues no token.
C13_EmailThenUsername == [](C13_State) /\ [][C13_Step]_vars

\* a request whose email and username are both taken, refused on the email
C13_Witness ==
    \E p \in Procs :
        /\ procs[p].op = "Register"
        /\ procs[p].pc = "done"
        /\ procs[p].err = "ErrUserAlreadyExists"
        /\ procs[p].calls = <<"ExistsByEmail">>
        /\ ExistsByUsername(users, procs[p].req.Username)
        /\ Len(users) = 1

\* C14 (as claimed): every user a registration creates is stored active and
\* not an administrator, whatever the request carries.
C14_RegisteredNeverAdmin ==
    \A p \in Procs :
        (/\ procs[p].op \in {"Register", "LegacyRegister"}
         /\ "Create" \in Range(procs[p].calls)
         /\ procs[p].user # NoUser) =>
            /\ procs[p].user.IsActive
            /\ ~procs[p].user.IsAdmin

\* the column value has the form of a bcrypt hash
IsHash(stored) == Len(stored) = 3 /\ stored[1] = "$2a$10$"

\* the passwords callers supply
Plaintexts == {"password1", "password2", "1234567", ""}

\* C15: after any sequence of Register, ChangePassword and UpdateProfile
\* the password column of every stored user holds a hash and never a
\* plaintext that was supplied, and the user a successful Register returns
\* has a password field different from the request's password.
C15_PasswordsHashed ==
    /\ \A i \in 1..Len(users) :
          /\ IsHash(users[i].Password)
          /\ \A w \in Plaintexts : users[i].Password # PlainText(w)
    /\ \A p \in Procs :
          (procs[p].op = "Register" /\ procs[p].pc = "done" /\ procs[p].err = "") =>
              /\ IsHash(procs[p].user.Password)
              /\ procs[p].user.Password # PlainText(procs[p].req.Password)

\* a password changed by ChangePassword and stored as the hash of the new one
C15_Witness ==
    \E p \in Procs :
        /\ procs[p].op = "ChangePassword"
        /\ procs[p].pc = "done"
        /\ procs[p].err = ""
        /\ users[procs[p].req.UserID].Password # PlainText(procs[p].req.NewPassword)
        /\ CheckPassword(users[procs[p].req.UserID].Password, procs[p].req.NewPassword)

\* C16: in every reachable state no two stored users share an email and no
\* two share a username, however Register and UpdateProfile calls interleave;
\* of two registrations with the same email or username at most one
\* succeeds, and when both got past the existence checks the other one
\* returns an error.
C16_Unique ==
    /\ \A i, j \in 1..Len(users) :
          i # j => /\ users[i].Email # users[j].Email
                   /\ users[i].Username # users[j].Username
    /\ \A p, q \in Procs :
          (/\ p # q
           /\ procs[p].op = "Register" /\ procs[p].pc = "done"
           /\ procs[q].op = "Register" /\ procs[q].pc = "done"
           /\ \/ procs[p].req.Email = procs[q].req.Email
              \/ procs[p].req.Username = procs[q].req.Username) =>
              ~(procs[p].err = "" /\ procs[q].err = "")

\* two registrations with one email that both passed the existence checks:
\* the first insert won, the second was stopped by the unique index
C16_Witness ==
    \E p, q \in Procs :
        /\ p # q
        /\ procs[p].op = "Register" /\ procs[p].pc = "done"
        /\ procs[q].op = "Register" /\ procs[q].pc = "done"
        /\ procs[p].req.Email = procs[q].req.Email
        /\ procs[p].req.Username # procs[q].req.Username
        /\ "Create" \in Range(procs[p].calls)
        /\ "Create" \in Range(procs[q].calls)
        /\ procs[p].err = ""
        /\ procs[q].err = "failed to create user"

\* C17 (as claimed): a Login with non-empty email and password that finds
\* an inactive account returns InactiveAccountError, the password being
\* right or wrong, issues no token and does not update the last login.
C17_InactiveRefused ==
    \A p \in Procs :
        (/\ procs[p].op \in {"Login", "LegacyLogin"}
         /\ procs[p].pc = "done"
         /\ procs[p].req.Email # "" /\ procs[p].req.Password # ""
         /\ procs[p].user # NoUser
         /\ ~procs[p].user.IsActive) =>
            /\ procs[p].err = "ErrUserInactive"
            /\ ~procs[p].token
            /\ "UpdateLastLogin" \notin Range(procs[p].calls)

\* C18 (as claimed): every Login that fails returns InvalidCredentialsError,
\* so its result never tells whether the email is registered.
C18_NoEnumeration ==
    \A p \in Procs :
        (procs[p].op = "Login" /\ procs[p].pc = "done" /\ procs[p].err # "") =>
            procs[p].err = "ErrInvalidCredentials"

\* C18 (amended): Login returns the same InvalidCredentialsError when a
\* field is empty, when no user has the email, and when an active user has
\* it but the password does not verify; its only other failure is
\* InactiveAccountError, returned exactly when the email belongs to an
\* inactive account.
C18_SameErrorUnlessInactive ==
    \A p \in Procs :
        (procs[p].op = "Login" /\ procs[p].pc = "done" /\ procs[p].err # "") =>
            /\ (procs[p].req.Email = "" \/ procs[p].req.Password = "") =>
                  (procs[p].err = "ErrInvalidCredentials" /\ procs[p].calls = <<>>)
            /\ procs[p].user = NoUser => procs[p].err = "ErrInvalidCredentials"
            /\ (procs[p].user # NoUser /\ procs[p].user.IsActive) =>
                  /\ procs[p].err = "ErrInvalidCredentials"
                  /\ ~CheckPassword(procs[p].user.Password, procs[p].req.Password)
            /\ (procs[p].user # NoUser /\ ~procs[p].user.IsActive) =>
                  procs[p].err = "ErrUserInactive"

\* a wrong password for a registered email and a login for an unknown
\* email, answered alike
C18_Witness ==
    \E p, q \in Procs :
        /\ procs[p].op = "Login" /\ procs[p].pc = "done"
        /\ procs[q].op = "Login" /\ procs[q].pc = "done"
        /\ procs[p].user # NoUser /\ procs[p].user.IsActive
        /\ procs[q].user = NoUser /\ procs[q].req.Email # ""
        /\ procs[q].req.Password # ""
        /\ procs[p].err = "ErrInvalidCredentials"
        /\ procs[q].err = procs[p].err

Registered(p) ==
    procs[p].op = "Register" /\ procs[p].pc = "done" /\ procs[p].err = ""

C19_State ==
    \A p \in Procs :
        /\ Registered(p) =>
              /\ procs[p].token
              /\ procs[p].user.ID \in 1..Len(users)
              /\ users[procs[p].user.ID].Email = procs[p].req.Email
        /\ (procs[p].op = "Login" /\ procs[p].pc = "done" /\ procs[p].err = "") =>
              /\ procs[p].token
              /\ procs[p].user.Email = procs[p].req.Email

C19_Step ==
    \A q \in Procs :
        /\ (At(q, "Login", "GetByEmail") /\ procs'[q] # procs[q]) =>
              \A p \in Procs :
                  (/\ Registered(p)
                   /\ procs[q].req.Email = procs[p].req.Email
                   /\ procs[q].req.Password = procs[p].req.Password
                   /\ users[procs[p].user.ID].IsActive
                   /\ users[procs[p].user.ID].Password = procs[p].user.Password) =>
                      /\ procs'[q].pc = "UpdateLastLogin"
                      /\ procs'[q].user.ID = procs[p].user.ID
        /\ (procs[q].pc = "UpdateLastLogin" /\ procs'[q] # procs[q]) =>
              /\ procs'[q].pc = "done"
              /\ procs'[q].err = ""
              /\ procs'[q].token
              /\ procs'[q].user.ID = procs[q].user.ID
              /\ origin'.kind = "issued"
              /\ origin'.at = now
              /\ origin'.claims.UserID = procs[q].user.ID
              /\ DateTime(origin'.expiresAt) > now
              /\ AuthServiceValidateToken(tok', now).ok

\* C19: a successful Register returns a token whose expiry is later than
\* now, and a Login with the same email and password, made in any later
\* state where the account is active and its password unchanged, succeeds
\* with a new token and the user of the same id.
C19_RegisterThenLogin == [](C19_State) /\ [][C19_Step]_vars

\* a registration and, at a later instant, a login with its credentials
C19_Witness ==
    \E p, q \in Procs :
        /\ Registered(p)
        /\ procs[q].op = "Login" /\ procs[q].pc = "done" /\ procs[q].err = ""
        /\ procs[q].req.Email = procs[p].req.Email
        /\ procs[q].req.Password = procs[p].req.Password
        /\ procs[q].user.ID = procs[p].user.ID
        /\ procs[q].token
        /\ origin.at > 0
        /\ origin.claims.UserID = procs[p].user.ID

C20_State ==
    \A p \in Procs :
        (procs[p].op = "ChangePassword" /\ procs[p].pc = "done" /\ procs[p].err # "") =>
            "UpdatePassword" \notin Range(procs[p].calls)

C20_Step ==
    \A p \in Procs :
        (procs[p].pc = "idle" /\ procs'[p].op = "ChangePassword") =>
            LET r == procs'[p].req
                found == r.UserID \in 1..Len(users)
            IN /\ ~found =>
                     (procs'[p].pc = "done" /\ procs'[p].err = "ErrUserNotFound")
               /\ (found /\ ~CheckPassword(users[r.UserID].Password, r.Password)) =>
                     (procs'[p].pc = "done" /\ procs'[p].err = "ErrInvalidCredentials")
               /\ (/\ found
                   /\ CheckPassword(users[r.UserID].Password, r.Password)
                   /\ len(r.NewPassword) < 8) =>
                     (procs'[p].pc = "done" /\ procs'[p].err \in ValidationErrors)
               /\ procs'[p].pc = "done" => (procs'[p].err # "" /\ users' = users)

\* C20: ChangePassword returns NotFoundError for an unknown id, else
\* InvalidCredentialsError when the current password does not verify, even
\* with a weak new password, else a validation error when the new password
\* is under 8 bytes; in each of these cases the stored hash is unchanged.
C20_CurrentPasswordFirst == [](C20_State) /\ [][C20_Step]_vars

\* a wrong current password together with a weak new one
C20_Witness ==
    \E p \in Procs :
        /\ procs[p].op = "ChangePassword"
        /\ procs[p].pc = "done"
        /\ procs[p].req.UserID \in 1..Len(users)
        /\ len(procs[p].req.NewPassword) < 8
        /\ procs[p].err = "ErrInvalidCredentials"

\* a step of the UpdateProfile call of p
UpdateProfileStep(p) ==
    /\ procs'[p] # procs[p]
    /\ procs'[p].op = "UpdateProfile"

C21_Step ==
    \A p \in Procs :
        UpdateProfileStep(p) =>
            LET r == procs'[p].req
            IN /\ Len(users') = Len(users)
               /\ \A i \in 1..Len(users) : i # r.UserID => users'[i] = users[i]
               /\ r.UserID \in 1..Len(users) =>
                     /\ users'[r.UserID].Email = users[r.UserID].Email
                     /\ users'[r.UserID].Password = users[r.UserID].Password
                     /\ users'[r.UserID].IsActive = users[r.UserID].IsActive
                     /\ users'[r.UserID].IsAdmin = users[r.UserID].IsAdmin
                     /\ r.FirstName = NoUpdate =>
                           users'[r.UserID].FirstName = users[r.UserID].FirstName
                     /\ r.Username = NoUpdate =>
                           users'[r.UserID].Username = users[r.UserID].Username
                     /\ (procs[p].pc = "idle"
                         /\ r.Username = users[r.UserID].Username) =>
                           procs'[p].err # "ErrUserAlreadyExists"
               /\ procs'[p].err # "" => users' = users
               /\ (procs[p].pc = "ExistsByUsername"
                   /\ ExistsByUsername(users, r.Username)) =>
                     procs'[p].err = "ErrUserAlreadyExists"

\* C21 (as claimed): every step of UpdateProfile leaves the other users and
\* the email, password hash, active flag and admin flag of its own user as
\* they are stored, changes the first name and the username only when they
\* are supplied, changes nothing when it fails, fails with AlreadyExistsError
\* when the new username is taken, and does not take the user's own
\* username for a collision.
C21_OnlySuppliedFields == [][C21_Step]_vars

\* ------------------------------------------------- the HTTP error relay
\* ErrorResponse{Error, Message, Details} with its status; Details is left
\* out of the body when it is empty
ErrorResponse(status, error, message, details) ==
    [status |-> status, error |-> error, message |-> message,
     details |-> details]

\* the errors handleAuthError answers with 400
BadRequestErrors ==
    {"ErrUserEmailRequired", "ErrUserUsernameRequired", "ErrUserUsernameTooShort",
     "ErrUserUsernameTooLong", "ErrInvalidInput", "ErrValidationFailed"}

\* handleAuthError with ErrUserAlreadyExists left to the default case
handleAuthErrorNoConflict(err) ==
    CASE err = "ErrUserNotFound" -> ErrorResponse(404, "Not Found", err, "")
      [] err \in {"ErrInvalidCredentials", "ErrUserInactive", "ErrUnauthorized",
                  "ErrInvalidToken"} ->
            ErrorResponse(401, "Unauthorized", err, "")
      [] err \in BadRequestErrors -> ErrorResponse(400, "Bad Request", err, "")
      [] OTHER -> ErrorResponse(500, "Internal Server Error",
                                "An unexpected error occurred", err)

\* handleAuthError: the switch on the error value; gin.Mode() is not read
handleAuthError(err) ==
    CASE err = "ErrUserNotFound" -> ErrorResponse(404, "Not Found", err, "")
      [] err = "ErrUserAlreadyExists" -> ErrorResponse(409, "Conflict", err, "")
      [] err \in {"ErrInvalidCredentials", "ErrUserInactive", "ErrUnauthorized",
                  "ErrInvalidToken"} ->
            ErrorResponse(401, "Unauthorized", err, "")
      [] err \in BadRequestErrors -> ErrorResponse(400, "Bad Request", err, "")
      [] OTHER -> ErrorResponse(500, "Internal Server Error",
                                "An unexpected error occurred", err)

GinModes == {"release", "debug"}

\* RecoveryMiddleware: the body written after a panic
RecoveryMiddleware(recovered, mode) ==
    IF mode = "release"
        THEN ErrorResponse(500, "Internal Server Error",
                           "An unexpected error occurred", "")
        ELSE ErrorResponse(500, "Internal Server Error",
                           "An unexpected error occurred", recovered)

\* the AuthService operations the AuthHandler serves
HandlerOps ==
    {"Register", "Login", "UpdateProfile", "ChangePassword", "RefreshToken",
     "RevokeToken"}

\* a call of the AuthHandler that ended in an error
Failed(p) ==
    procs[p].op \in HandlerOps /\ procs[p].pc = "done" /\ procs[p].err # ""

\* the errors of package entity that handleAuthError knows
TaggedErrors ==
    {"ErrUserNotFound", "ErrUserAlreadyExists", "ErrInvalidCredentials",
     "ErrUserInactive", "ErrUnauthorized", "ErrInvalidToken"}
        \cup BadRequestErrors

\* C22: the error of every failed AuthService call is answered with 404
\* for user not found, 409 for already exists, 401 for invalid credentials,
\* inactive account, unauthorized and invalid token, 400 for the validation
\* errors, and 500 for every other error.
C22_StatusOfError ==
    \A p \in Procs :
        Failed(p) =>
            LET e == procs[p].err
                status == handleAuthError(e).status
            IN /\ e = "ErrUserNotFound" => status = 404
               /\ e = "ErrUserAlreadyExists" => status = 409
               /\ e \in {"ErrInvalidCredentials", "ErrUserInactive",
                         "ErrUnauthorized", "ErrInvalidToken"} => status = 401
               /\ e \in {"ErrUserEmailRequired", "ErrUserUsernameRequired",
                         "ErrUserUsernameTooShort", "ErrUserUsernameTooLong",
                         "ErrInvalidInput"} => status = 400
               /\ e \notin TaggedErrors => status = 500
               /\ status \in {400, 401, 404, 409, 500}

\* a registration refused for its email beside a password change for an id
\* nobody has
C22_Witness ==
    \E p, q \in Procs :
        /\ Failed(p) /\ procs[p].op = "Register"
        /\ procs[p].err = "ErrUserAlreadyExists"
        /\ handleAuthError(procs[p].err).status = 409
        /\ Failed(q) /\ procs[q].op = "ChangePassword"
        /\ procs[q].err = "ErrUserNotFound"
        /\ handleAuthError(procs[q].err).status = 404

\* C23 (as claimed): a failure that is none of the known errors is answered
\* with the generic internal error and nothing of the underlying error, by
\* the error relay and, in release mode, by the recovery middleware.
C23_NoDetailInRelease ==
    /\ \A recovered \in {"runtime error"} :
          RecoveryMiddleware(recovered, "release").details = ""
    /\ \A p \in Procs :
          (Failed(p) /\ procs[p].err \notin TaggedErrors) =>
              /\ handleAuthError(procs[p].err).status = 500
              /\ handleAuthError(procs[p].err).message =
                     "An unexpected error occurred"
              /\ handleAuthError(procs[p].err).details = ""

\* ================================================================ products
\* Go's int, narrowed from 64 bits so that the products below can be
\* computed; arithmetic wraps as two's complement does
IntBits == 16

MaxInt == 2^(IntBits - 1) - 1

MinInt == -(2^(IntBits - 1))

\* the int that an int operation yields for the mathematical result x
Wrap(x) ==
    LET m == x % (2^IntBits)
    IN IF m > MaxInt THEN m - 2^IntBits ELSE m

\* page and page_size as strconv.Atoi hands them to GetProducts
Pages == {-1, 0, 1, 2, 3, MaxInt \div 100, MaxInt \div 100 + 2, MaxInt}

PageSizes == {MinInt, -1, 0, 1, 2, 10, 100, 101, MaxInt}

\* what productRepo.GetTotalCount may return: the number of rows, those
\* created here and those of other names that were there before
Totals == {0, 1, 2, 9, 10, 11, 100, 101, 1000}

\* int(math.Ceil(float64(total) / float64(pageSize))), exact for the
\* magnitudes a row count has
CeilDiv(total, pageSize) == (total + pageSize - 1) \div pageSize

\* productUseCase.GetProducts: the pagination values, the offset and limit
\* given to productRepo.GetAll, and the ProductListResponse
GetProducts(page, pageSize, total) ==
    LET p == IF page < 1 THEN 1 ELSE page
        size == IF pageSize < 1 \/ pageSize > 100 THEN 10 ELSE pageSize
    IN [offset |-> Wrap((p - 1) * size), limit |-> size, Total |-> total,
        Page |-> p, PageSize |-> size, TotalPages |-> CeilDiv(total, size)]

\* service.ProductCreateRequest values (prices in whole units)
ProductCreateRequests ==
    [ID : {0}, Name : {"", "ab", "widget", "gadget", LongProductName},
     Price : {-10, 0, 30}, Stock : {-1, 0, 100}, IsActive : {FALSE}]

\* rows the products table may grow to
MaxProducts == 2

\* Product.Validate
ProductValidate(product) ==
    IF product.Name = "" THEN "ErrProductNameRequired"
    ELSE IF len(product.Name) < 3 THEN "ErrProductNameTooShort"
    ELSE IF len(product.Name) > 255 THEN "ErrProductNameTooLong"
    ELSE IF product.Price < 0 THEN "ErrProductPriceInvalid"
    ELSE IF product.Stock < 0 THEN "ErrProductStockInvalid"
    ELSE ""

\* productRepo.ExistsByName
ExistsByName(table, name) == \E i \in 1..Len(table) : table[i].Name = name

\* the handler takes the next request when no call is under way
ProductIdle == pcall.pc \in {"idle", "done"}

\* GetProducts: productRepo.GetAll, productRepo.GetTotalCount, the response
GetProductsCall ==
    \E page \in Pages, pageSize \in PageSizes, total \in Totals :
        /\ ProductIdle
        /\ total >= Len(products)
        /\ pcall' = [NoProductCall EXCEPT
                        !.op = "GetProducts", !.pc = "done",
                        !.req = [page |-> page, pageSize |-> pageSize],
                        !.calls = <<"GetAll", "GetTotalCount">>,
                        !.list = GetProducts(page, pageSize, total)]
        /\ UNCHANGED <<now, tok, origin, res, req, users, procs, products>>

\* CreateProduct that validates the entity before it asks for the name
CreateProductValidateFirst ==
    \E r \in ProductCreateRequests :
        /\ ProductIdle
        /\ Len(products) < MaxProducts
        /\ LET call == [NoProductCall EXCEPT !.op = "CreateProduct", !.req = r]
           IN pcall' =
                 IF ProductValidate(r) # ""
                     THEN [call EXCEPT !.pc = "done", !.err = ProductValidate(r)]
                 ELSE IF ExistsByName(products, r.Name)
                     THEN [call EXCEPT !.pc = "done", !.calls = <<"ExistsByName">>,
                                       !.err = "ErrProductAlreadyExists"]
                 ELSE [call EXCEPT !.pc = "Create", !.calls = <<"ExistsByName">>]
        /\ UNCHANGED <<now, tok, origin, res, req, users, procs, products>>

\* CreateProduct: productRepo.ExistsByName
CreateProductExistsByName ==
    \E r \in ProductCreateRequests :
        /\ ProductIdle
        /\ Len(products) < MaxProducts
        /\ LET call == [NoProductCall EXCEPT !.op = "CreateProduct", !.req = r,
                                             !.calls = <<"ExistsByName">>]
           IN pcall' =
                 IF ExistsByName(products, r.Name)
                     THEN [call EXCEPT !.pc = "done",
                                       !.err = "ErrProductAlreadyExists"]
                     ELSE [call EXCEPT !.pc = "Create"]
        /\ UNCHANGED <<now, tok, origin, res, req, users, procs, products>>

\* CreateProduct: the entity, product.Validate, productRepo.Create
CreateProductCreate ==
    /\ pcall.op = "CreateProduct"
    /\ pcall.pc = "Create"
    /\ LET product == [pcall.req EXCEPT !.IsActive = TRUE]
           row == [product EXCEPT !.ID = Len(products) + 1]
       IN IF ProductValidate(product) # ""
             THEN /\ pcall' = [pcall EXCEPT !.pc = "done",
                                            !.err = ProductValidate(product)]
                  /\ UNCHANGED products
             ELSE /\ products' = Append(products, row)
                  /\ pcall' = [pcall EXCEPT !.pc = "done",
                                            !.calls = Append(@, "Create"),
                                            !.product = row]
    /\ UNCHANGED <<now, tok, origin, res, req, users, procs>>

ProductNext ==
    \/ GetProductsCall
    \/ CreateProductExistsByName
    \/ CreateProductCreate

\* the ProductService calls, one at a time
SpecProduct == Init /\ [][ProductNext]_vars

\* the last call was a GetProducts
Listed == pcall.op = "GetProducts" /\ pcall.pc = "done"

\* C24 (as claimed): for every page, page size and total GetProducts turns a
\* page under 1 into 1 and a page size outside 1..100 into 10, asks the
\* repository for offset (page-1)*pageSize and limit pageSize, and reports
\* the normalised page and page size with TotalPages the ceiling of
\* total / pageSize, 0 for a total of 0.
C24_Pagination ==
    Listed =>
        LET page == IF pcall.req.page < 1 THEN 1 ELSE pcall.req.page
            size == IF pcall.req.pageSize \in 1..100 THEN pcall.req.pageSize ELSE 10
            out == pcall.list
        IN /\ out.Page = page
           /\ out.PageSize = size
           /\ out.limit = size
           /\ out.offset = (page - 1) * size
           /\ (out.TotalPages - 1) * size < out.Total
           /\ out.Total <= out.TotalPages * size
           /\ out.Total = 0 => out.TotalPages = 0

\* a step of CreateProduct
CreateProductStep == pcall' # pcall /\ pcall'.op = "CreateProduct"

C25_State ==
    (pcall.op = "CreateProduct") =>
        /\ Len(pcall.calls) >= 1 /\ pcall.calls[1] = "ExistsByName"
        /\ pcall.err = "ErrProductAlreadyExists" => pcall.calls = <<"ExistsByName">>
        /\ (pcall.pc = "done" /\ pcall.err # "") =>
              /\ "Create" \notin Range(pcall.calls)
              /\ pcall.product = NoProduct
        /\ (pcall.pc = "done" /\ pcall.err \notin {"", "ErrProductAlreadyExists"}) =>
              /\ pcall.err = ProductValidate(pcall.req)
              /\ pcall.req.Name = "" => pcall.err = "ErrProductNameRequired"
        /\ (pcall.pc = "done" /\ pcall.err = "") =>
              /\ pcall.product.IsActive
              /\ pcall.product.Name = pcall.req.Name
              /\ products[pcall.product.ID] = pcall.product

C25_Step ==
    CreateProductStep =>
        /\ pcall.pc # "Create" =>
              /\ pcall'.calls = <<"ExistsByName">>
              /\ ExistsByName(products, pcall'.req.Name) =>
                    (pcall'.pc = "done" /\ pcall'.err = "ErrProductAlreadyExists")
              /\ ~ExistsByName(products, pcall'.req.Name) =>
                    (pcall'.pc = "Create" /\ pcall'.err = "")
        /\ pcall'.err # "" => products' = products
        /\ pcall'.pc = "Create" => products' = products

\* C25: CreateProduct asks ExistsByName first, whatever the request holds;
\* for a name that exists it returns ErrProductAlreadyExists without calling
\* Create; otherwise an invalid request fails with the first error of
\* Product.Validate, ErrProductNameRequired before the price and stock
\* errors, and nothing is created; a product that is created is active.
C25_ExistenceThenValidation == [](C25_State) /\ [][C25_Step]_vars

\* the request of the test: no name and a negative price
C25_Witness ==
    /\ pcall.op = "CreateProduct"
    /\ pcall.pc = "done"
    /\ pcall.req.Name = ""
    /\ pcall.req.Price < 0
    /\ pcall.calls = <<"ExistsByName">>
    /\ pcall.err = "ErrProductNameRequired"
    /\ Len(products) = 1

\* a ChangePassword call that returned success
Changed(p) ==
    procs[p].op = "ChangePassword" /\ procs[p].pc = "done" /\ procs[p].err = ""

C26_State ==
    \A p \in Procs :
        Changed(p) =>
            /\ "UpdatePassword" \in Range(procs[p].calls)
            /\ CheckPassword(procs[p].user.Password, procs[p].req.NewPassword)

C26_Step ==
    \A p, q \in Procs :
        (/\ Changed(p)
         /\ procs[p].req.NewPassword # procs[p].req.Password
         /\ At(q, "Login", "GetByEmail")
         /\ procs'[q] # procs[q]
         /\ procs[q].req.Email = users[procs[p].req.UserID].Email
         /\ users[procs[p].req.UserID].IsActive) =>
            /\ procs[q].req.Password = procs[p].req.NewPassword =>
                  /\ procs'[q].pc = "UpdateLastLogin"
                  /\ procs'[q].user.ID = procs[p].req.UserID
            /\ procs[q].req.Password = procs[p].req.Password =>
                  /\ procs'[q].pc = "done"
                  /\ procs'[q].err = "ErrInvalidCredentials"

\* C26: once ChangePassword has succeeded with a new password different
\* from the current one, and nothing else has acted on the account, a Login
\* with the new password passes the password check and a Login with the old
\* one fails with InvalidCredentialsError.
C26_NewPasswordOnly == [](C26_State) /\ [][C26_Step]_vars

\* a login with the new password after the change
C26_Witness ==
    \E p, q \in Procs :
        /\ Changed(p)
        /\ procs[p].req.NewPassword # procs[p].req.Password
        /\ procs[q].op = "Login" /\ procs[q].pc = "done" /\ procs[q].err = ""
        /\ procs[q].token
        /\ procs[q].user.ID = procs[p].req.UserID
        /\ procs[q].req.Password = procs[p].req.NewPassword
        /\ procs[q].user.Password = procs[p].user.Password

\* C27 (as claimed): every stored username is 3 to 50 bytes long, and an
\* UpdateProfile whose new username is not fails with a validation error.
C27_UsernameLength ==
    /\ \A i \in 1..Len(users) :
          len(users[i].Username) >= 3 /\ len(users[i].Username) <= 50
    /\ \A p \in Procs :
          (/\ procs[p].op = "UpdateProfile" /\ procs[p].pc = "done"
           /\ procs[p].user # NoUser
           /\ procs[p].req.Username # NoUpdate
           /\ len(procs[p].req.Username) \notin 3..50) =>
              procs[p].err \in ValidationErrors \cup {"ErrUserAlreadyExists"}

\* C29 (as claimed): once a ChangePassword has returned success, and no
\* other ChangePassword is under way, the stored hash of its user is the
\* hash of its new password.
C29_ChangeNotUndone ==
    \A p \in Procs :
        (Changed(p) /\ \A q \in Procs \ {p} : procs[q].op # "ChangePassword") =>
            users[procs[p].req.UserID].Password = procs[p].user.Password

\* ------------------------------------------------ refreshing a token
\* an account that was deleted after it had logged in
GoneUser == [NoUser EXCEPT !.ID = Cardinality(ValidEmails) + 1,
                           !.Email = "r@b.co", !.Username = "root",
                           !.IsActive = TRUE]

\* a TokenManager of another server
ForeignTM == [ServerTM EXCEPT !.secretKey = "B"]

\* the token a client holds when the server starts: none, the token of the
\* deleted account, or one another server issued
HeldAtStart ==
    {[tok |-> MalformedToken, origin |-> NoOrigin]}
    \cup { [tok |-> GenerateToken(tm, ClaimsOfUser(GoneUser), 0).token,
            origin |-> [kind |-> "issued", tm |-> tm,
                        claims |-> ClaimsOfUser(GoneUser), at |-> 0,
                        expiresAt |-> GenerateToken(tm, ClaimsOfUser(GoneUser),
                                                    0).expiresAt]] :
               tm \in {ServerTM, ForeignTM} }

InitRefresh ==
    /\ now = 0
    /\ \E held \in HeldAtStart : tok = held.tok /\ origin = held.origin
    /\ res = NoRes
    /\ req = NoReq
    /\ users = <<SeedUser>>
    /\ procs = [p \in Procs |-> NoProc]
    /\ products = <<>>
    /\ pcall = NoProductCall

RefreshNext ==
    \/ Tick
    \/ LoginCheckInput
    \/ LoginGetByEmail
    \/ LoginIssue
    \/ RefreshToken
    \/ Deactivate
    \/ Promote

\* logins and refreshes on one account
SpecRefresh == InitRefresh /\ [][RefreshNext]_vars

C28_Step ==
    \A p \in Procs :
        (procs[p].pc = "idle" /\ procs'[p].op = "RefreshToken") =>
            LET valid == ValidateToken(ServerTM, tok, now)
                id == valid.claims.UserID
            IN /\ ~valid.ok =>
                     /\ procs'[p].err = "ErrInvalidToken"
                     /\ ~procs'[p].token /\ tok' = tok
               /\ (valid.ok /\ id \notin 1..Len(users)) =>
                     /\ procs'[p].err = "ErrUserNotFound"
                     /\ ~procs'[p].token /\ tok' = tok
               /\ (valid.ok /\ id \in 1..Len(users) /\ ~users[id].IsActive) =>
                     /\ procs'[p].err = "ErrUserInactive"
                     /\ ~procs'[p].token /\ tok' = tok
               /\ (valid.ok /\ id \in 1..Len(users) /\ users[id].IsActive) =>
                     /\ procs'[p].err = ""
                     /\ procs'[p].token
                     /\ procs'[p].user = users[id]
                     /\ tok' # tok =>
                           /\ ValidateToken(ServerTM, tok', now).ok
                           /\ ValidateToken(ServerTM, tok', now).claims =
                                  ClaimsOfUser(users[id])
                           /\ origin'.claims = ClaimsOfUser(users[id])

\* C28: RefreshToken returns InvalidTokenError when the token does not
\* validate, NotFoundError when no user has the id in its claims,
\* InactiveAccountError when that user is inactive, and otherwise a new
\* token whose claims are the user's id, username, email and admin flag as
\* stored at that moment, not the claims of the token presented.
C28_RefreshFromCurrentUser == [][C28_Step]_vars

\* a token refreshed after its user was made an administrator
C28_Witness ==
    \E p, q \in Procs :
        /\ procs[q].op = "Login" /\ procs[q].pc = "done" /\ procs[q].err = ""
        /\ ~procs[q].user.IsAdmin
        /\ procs[p].op = "RefreshToken" /\ procs[p].pc = "done"
        /\ procs[p].err = ""
        /\ procs[p].user.ID = procs[q].user.ID
        /\ procs[p].user.IsAdmin
        /\ origin.kind = "issued"
        /\ origin.claims.IsAdmin
        /\ ValidateToken(ServerTM, tok, now).claims.IsAdmin

\* the instants the model's clock shows
Instants == 0..MaxTime

\* C30: the expiry GenerateToken returns equals the exp of the token, both
\* being now plus the lifetime cut to whole seconds; ValidateToken accepts
\* the token from its issue until that second, a window never longer than
\* the lifetime and shorter than it by less than a second, so that a token
\* with a lifetime under a second may be refused at the instant of issue.
C30_ExpiryTruncated ==
    origin.kind = "issued" =>
        LET tm == origin.tm
            exact == origin.at + tm.expiresIn
        IN /\ origin.expiresAt = tok.payload.exp
           /\ origin.expiresAt = Unix(exact)
           /\ DateTime(origin.expiresAt) <= exact
           /\ exact < DateTime(origin.expiresAt) + TicksPerSecond
           /\ \A t \in Instants :
                 t >= origin.at =>
                     /\ ValidateToken(tm, tok, t).ok <=>
                            t < DateTime(origin.expiresAt)
                     /\ ValidateToken(tm, tok, t).ok => t - origin.at < tm.expiresIn

\* a token of under a second, refused by ValidateToken as soon as issued
C30_Witness ==
    /\ origin.kind = "issued"
    /\ origin.tm.expiresIn < TicksPerSecond
    /\ now = origin.at
    /\ origin.expiresAt = tok.payload.exp
    /\ res.op = "ValidateToken"
    /\ res.secretKey = origin.tm.secretKey
    /\ ~res.ok
    /\ "ErrTokenExpired" \in res.err

====
